---- MODULE Spec2Model ----
(***************************************************************************)
(* The TLS/DTLS record layer of mint (src/record-layer.go): cipher states, *)
(* nonce construction, the record codec (encrypt / decrypt / padding), the *)
(* read path with its one-record peek cache and its datagram epoch map,    *)
(* and the write path.                                                     *)
(*                                                                         *)
(* Representation choices:                                                 *)
(*  - a uint64 is three limbs [e, h, l] = e*2^48 + h*2^24 + l, so that the *)
(*    2^48-1 limit and the epoch<<48 packing keep their real width;        *)
(*  - a byte string is [n, s]: n bytes of value FillByte followed by the   *)
(*    explicit bytes s, so that lengths around 2^14 stay representable;    *)
(*  - the AEAD is symbolic: Seal records key, nonce, associated data and   *)
(*    plaintext, Open succeeds exactly when all of them match and the      *)
(*    ciphertext was not tampered with;                                    *)
(*  - cipher states are heap objects (the code holds *cipherState), so     *)
(*    that r.cipher and r.readCiphers[e] alias as they do in the code.     *)
(***************************************************************************)
EXTENDS Integers, Sequences, FiniteSets, TLC

VARIABLES
    allowWrongVersionNumber, \* package-level switch read by nextRecord
    layers,                  \* layer id -> DefaultRecordLayer
    heap,                    \* object id -> cipherState
    conn,                    \* connection id -> the items in flight on it, oldest first
    last,                    \* the last call made and what it returned
    nops,                    \* number of calls the callers still make
    hist,                    \* ghost: AEAD seals and key installs seen so far
    codec,                   \* the codec exercised on its own (SpecCodec)
    oprf,                    \* the DHOPRF client and server (SpecOprf)
    callers                  \* the instance lock and the goroutines using it (SpecLock)

vars == <<allowWrongVersionNumber, layers, heap, conn, last, nops, hist, codec, oprf, callers>>

----------------------------------------------------------------------------
(* Bounds of the model *)

MaxOps == 3
MaxWriteOps == 4
MaxPipeOps == 5
MaxPad == 1

----------------------------------------------------------------------------
(* Program constants *)

maxFragmentLen == 2^14
AEADOverhead == 16
RecordTypeAlert == 21
RecordTypeHandshake == 22
RecordTypeApplicationData == 23
RecordTypeAck == 25
EpochClear == 0
tls10Version == 769
tls12Version == 771
DirectionWrite == 1
DirectionRead == 2

KnownTypes == {RecordTypeAlert, RecordTypeHandshake, RecordTypeApplicationData, RecordTypeAck}

----------------------------------------------------------------------------
(* uint64 arithmetic on limbs *)

Limb == 2^24
EpochLimbs == 2^16

U64(e, h, l) == [e |-> e, h |-> h, l |-> l]

Zero64 == U64(0, 0, 0)

\* 1<<48 - 1
SeqLimit == U64(0, Limb - 1, Limb - 1)

\* a >= b on uint64
Geq64(a, b) ==
    \/ a.e > b.e
    \/ a.e = b.e /\ a.h > b.h
    \/ a.e = b.e /\ a.h = b.h /\ a.l >= b.l

\* a + 1 on uint64 (wrapping at 2^64)
Inc64(a) ==
    IF a.l < Limb - 1 THEN U64(a.e, a.h, a.l + 1)
    ELSE IF a.h < Limb - 1 THEN U64(a.e, a.h + 1, 0)
    ELSE U64((a.e + 1) % EpochLimbs, 0, 0)

RECURSIVE BitXor(_, _)
BitXor(a, b) ==
    IF a = 0 THEN b
    ELSE IF b = 0 THEN a
    ELSE (((a % 2) + (b % 2)) % 2) + 2 * BitXor(a \div 2, b \div 2)

RECURSIVE BitOr(_, _)
BitOr(a, b) ==
    IF a = 0 THEN b
    ELSE IF b = 0 THEN a
    ELSE (IF (a % 2) = 1 \/ (b % 2) = 1 THEN 1 ELSE 0) + 2 * BitOr(a \div 2, b \div 2)

Xor64(a, b) == U64(BitXor(a.e, b.e), BitXor(a.h, b.h), BitXor(a.l, b.l))

----------------------------------------------------------------------------
(* Byte strings *)

FillByte == 170

Bytes(n, s) == [n |-> n, s |-> s]

BLen(b) == b.n + Len(b.s)

\* b[i], i counted from 0
BAt(b, i) == IF i < b.n THEN FillByte ELSE b.s[i - b.n + 1]

\* b[:k]
BTake(b, k) ==
    IF k <= b.n THEN Bytes(k, <<>>) ELSE Bytes(b.n, SubSeq(b.s, 1, k - b.n))

BCat(b, s) == Bytes(b.n, b.s \o s)

ZeroBytes(k) == [i \in 1..k |-> 0]

AllZero(b) == b.n = 0 /\ \A i \in 1..Len(b.s) : b.s[i] = 0

----------------------------------------------------------------------------
(* Headers, bodies and the symbolic AEAD *)

Header(ct, ver, seq, len) == [ct |-> ct, ver |-> ver, seq |-> seq, len |-> len]

NoHeader == Header(0, 0, Zero64, 0)

NoNonce == [head |-> 0, x |-> Zero64]

\* a body that is plain bytes
Raw(b) ==
    [sealed |-> FALSE, key |-> "nil", nonce |-> NoNonce, aad |-> NoHeader,
     data |-> b, good |-> TRUE]

\* cipher.AEAD.Seal(dst, nonce, plaintext, additionalData)
Seal(key, nonce, plaintext, aad) ==
    [sealed |-> TRUE, key |-> key, nonce |-> nonce, aad |-> aad,
     data |-> plaintext, good |-> TRUE]

\* cipher.AEAD.Open succeeds (err == nil)
OpenOk(key, nonce, body, aad) ==
    /\ body.sealed
    /\ body.good
    /\ body.key = key
    /\ body.nonce = nonce
    /\ body.aad = aad

\* len(body) on the wire
BodyLen(body) == BLen(body.data) + (IF body.sealed THEN AEADOverhead ELSE 0)

\* a ciphertext with one byte flipped
Corrupt(body) == [body EXCEPT !.good = FALSE]

----------------------------------------------------------------------------
(* cipherState *)

NoIV == [head |-> 0, x |-> Zero64]

CipherState(epoch, seq, iv, cipher) ==
    [epoch |-> epoch, seq |-> seq, iv |-> iv, cipher |-> cipher]

newCipherStateNull == CipherState(EpochClear, Zero64, NoIV, "nil")

\* the state built when factory(key) succeeds
newCipherStateAead(epoch, key, iv) == CipherState(epoch, Zero64, iv, key)

combineSeq(c, datagram) ==
    IF datagram THEN U64(BitOr(c.seq.e, c.epoch % EpochLimbs), c.seq.h, c.seq.l)
    ELSE c.seq

computeNonce(c, seq) == [head |-> c.iv.head, x |-> Xor64(c.iv.x, seq)]

\* an increment that skips a value
incrementByTwo(c) ==
    IF Geq64(c.seq, SeqLimit) THEN [panic |-> TRUE, cs |-> c]
    ELSE [panic |-> FALSE, cs |-> [c EXCEPT !.seq = Inc64(Inc64(c.seq))]]

\* an increment that leaves the counter where it is
incrementStuck(c) == [panic |-> Geq64(c.seq, SeqLimit), cs |-> c]

\* [panic, cs]: the panic of the wraparound guard, or the state with seq + 1
incrementSequenceNumber(c) ==
    IF Geq64(c.seq, SeqLimit) THEN [panic |-> TRUE, cs |-> c]
    ELSE [panic |-> FALSE, cs |-> [c EXCEPT !.seq = Inc64(c.seq)]]

overhead(c) == IF c.cipher = "nil" THEN 0 ELSE AEADOverhead

----------------------------------------------------------------------------
(* TLSPlaintext and the record codec *)

TLSPlaintext(ct, epoch, seq, fragment) ==
    [contentType |-> ct, epoch |-> epoch, seq |-> seq, fragment |-> fragment]

NoRecord == TLSPlaintext(0, 0, Zero64, Raw(Bytes(0, <<>>)))

\* nil *TLSPlaintext is told apart from a record by the flag beside it
Some(pt) == [nil |-> FALSE, pt |-> pt]
Nil == [nil |-> TRUE, pt |-> NoRecord]

\* an encrypt that lays the padding before the content type
encryptPadFirst(direction, cipher, seq, header, pt, padLen) ==
    IF direction # DirectionWrite THEN [err |-> "panic:assert", body |-> Raw(Bytes(0, <<>>))]
    ELSE
        LET payload == BCat(pt.fragment.data,
                            ZeroBytes(padLen) \o <<pt.contentType % 256>>)
        IN [err |-> "nil",
            body |-> Seal(cipher.cipher, computeNonce(cipher, seq), payload, header)]

\* encrypt: [err, body]; err is "nil", or a panic when the direction assert fails
encrypt(direction, cipher, seq, header, pt, padLen) ==
    IF direction # DirectionWrite THEN [err |-> "panic:assert", body |-> Raw(Bytes(0, <<>>))]
    ELSE
        LET payload == BCat(pt.fragment.data,
                            <<pt.contentType % 256>> \o ZeroBytes(padLen))
        IN [err |-> "nil",
            body |-> Seal(cipher.cipher, computeNonce(cipher, seq), payload, header)]

\* the loop of decrypt that finds the padding boundary: the padLen it ends
\* with, or -1 when it indexes out.fragment[-1]
RECURSIVE scanPadding(_, _, _)
scanPadding(fragment, decryptLen, padLen) ==
    IF padLen < decryptLen + 1
    THEN IF decryptLen - padLen - 1 < 0 THEN -1
         ELSE IF BAt(fragment, decryptLen - padLen - 1) = 0
              THEN scanPadding(fragment, decryptLen, padLen + 1)
              ELSE padLen
    ELSE padLen

DecryptFail(err) == [err |-> err, pt |-> NoRecord, padLen |-> 0]

\* the panics of the code: assert, a nil AEAD, an index out of range, the
\* wraparound guard, an unsupported version
Panics == {"panic:assert", "panic:nil", "panic:index", "panic:wraparound", "panic:version"}

\* a decrypt that truncates one byte short of the content type
decryptKeepsType(direction, rc, seq, header, pt) ==
    IF direction # DirectionRead THEN DecryptFail("panic:assert")
    ELSE IF BodyLen(pt.fragment) < overhead(rc) THEN DecryptFail("DecryptError")
    ELSE IF rc.cipher = "nil" THEN DecryptFail("panic:nil")
    ELSE IF ~OpenOk(rc.cipher, computeNonce(rc, seq), pt.fragment, header)
         THEN DecryptFail("DecryptError")
    ELSE
        LET decryptLen == BodyLen(pt.fragment) - overhead(rc)
            out == pt.fragment.data
            padLen == scanPadding(out, decryptLen, 0)
            newLen == decryptLen - padLen - 1
        IN IF padLen < 0 \/ newLen < 0 THEN DecryptFail("panic:index")
           ELSE [err |-> "nil",
                 pt |-> TLSPlaintext(BAt(out, newLen), 0, seq, Raw(BTake(out, newLen + 1))),
                 padLen |-> padLen]

\* decrypt: [err, pt, padLen]; rc is r.cipher, the layer's current cipher state
decrypt(direction, rc, seq, header, pt) ==
    IF direction # DirectionRead THEN DecryptFail("panic:assert")
    ELSE IF BodyLen(pt.fragment) < overhead(rc) THEN DecryptFail("DecryptError")
    ELSE IF rc.cipher = "nil" THEN DecryptFail("panic:nil")
    ELSE IF ~OpenOk(rc.cipher, computeNonce(rc, seq), pt.fragment, header)
         THEN DecryptFail("DecryptError")
    ELSE
        LET decryptLen == BodyLen(pt.fragment) - overhead(rc)
            out == pt.fragment.data
            padLen == scanPadding(out, decryptLen, 0)
            newLen == decryptLen - padLen - 1
        IN IF padLen < 0 \/ newLen < 0 THEN DecryptFail("panic:index")
           ELSE [err |-> "nil",
                 pt |-> TLSPlaintext(BAt(out, newLen), 0, seq, Raw(BTake(out, newLen))),
                 padLen |-> padLen]

----------------------------------------------------------------------------
(* DefaultRecordLayer, the heap of cipher states and the transport *)

NoMap == [e \in {} |-> 0]

\* NewRecordLayerTLS / NewRecordLayerDTLS on connection cn, with r.cipher at
\* heap object c
NewRecordLayer(cn, dir, datagram, c) ==
    [conn |-> cn,
     direction |-> dir,
     datagram |-> datagram,
     version |-> IF datagram THEN 0 ELSE tls10Version,
     cipher |-> c,
     readCiphers |-> IF datagram THEN [e \in {0} |-> c] ELSE NoMap,
     cachedRecord |-> Nil,
     cachedError |-> "nil",
     pc |-> "idle"]

\* the smallest object id that is free
FreshId(h) == CHOOSE i \in 0..Cardinality(DOMAIN h) : i \notin DOMAIN h

\* the heap objects some layer still points to
Reachable(ls) ==
    UNION {{ls[i].cipher} \cup {ls[i].readCiphers[e] : e \in DOMAIN ls[i].readCiphers}
           : i \in DOMAIN ls}

\* garbage collection: only reachable cipher states are kept
Collect(h, ls) == [i \in Reachable(ls) |-> h[i]]

\* what a connection carries: a complete frame, or an error for the reader
Frame(header, body) == [kind |-> "rec", header |-> header, body |-> body]
ReadError == [kind |-> "err", header |-> NoHeader, body |-> Raw(Bytes(0, <<>>))]

\* r.Epoch()
Epoch(id) == heap[layers[id].cipher].epoch

\* what a call returned; ct is the type PeekRecordType returns, arg the call's
\* numeric argument (padLen, epoch; 1 for a blocking peek and 0 for a
\* non-blocking one) or, for a read, the number of peeks that
\* returned a type since the read before it, inp the record handed to a write
\* or, for a read, the header of the frame it took off the transport
Ret(id, op, err, pt, ct, arg, inp) ==
    [id |-> id, op |-> op, err |-> err, pt |-> pt, ct |-> ct, arg |-> arg, inp |-> inp]

NoCall == Ret("", "none", "nil", Nil, 0, 0, Nil)

\* ghost state: the (key, nonce) pairs of the sealed records handed to the
\* transport and whether one was used twice; the keys Rekey installed and
\* whether one was installed twice; the number of peeks that returned a type
\* since the last read, and that type; whether the transport ever failed a
\* call; and, once a pipe was rekeyed (log), the records written to it and the
\* records read from it since
NoHist ==
    [seals |-> {}, nonceReused |-> FALSE, keys |-> {}, keyReused |-> FALSE,
     peekN |-> 0, peekCt |-> 0, faulty |-> FALSE,
     log |-> FALSE, sent |-> <<>>, got |-> <<>>]

CodecOff == [pc |-> "off"]

\* no OPRF exchange is modelled
OprfOff == [pc |-> "off"]

\* the layer is used by one caller
CallersOff == [mu |-> "off"]

CanCall(id) ==
    /\ id \in DOMAIN layers
    /\ layers[id].pc = "idle"
    /\ nops > 0

----------------------------------------------------------------------------
(* Configuration and rekeying *)

SetVersion(id, v) ==
    /\ CanCall(id)
    /\ layers' = [layers EXCEPT ![id].version = v]
    /\ last' = Ret(id, "SetVersion", "nil", Nil, 0, v, Nil)
    /\ nops' = nops - 1
    /\ UNCHANGED <<callers, oprf, allowWrongVersionNumber, heap, conn, hist, codec>>

ResetClear(id, seq) ==
    /\ CanCall(id)
    /\ LET c == FreshId(heap)
           h == [i \in DOMAIN heap \cup {c} |->
                    IF i = c THEN [newCipherStateNull EXCEPT !.seq = seq] ELSE heap[i]]
           ls == [layers EXCEPT ![id].cipher = c]
       IN /\ layers' = ls
          /\ heap' = Collect(h, ls)
    /\ last' = Ret(id, "ResetClear", "nil", Nil, 0, 0, Nil)
    /\ nops' = nops - 1
    /\ UNCHANGED <<callers, oprf, allowWrongVersionNumber, conn, hist, codec>>

\* a Rekey that replaces the epoch map by one holding the new state alone
RekeyLayerForgets(L, epoch, c) ==
    [L EXCEPT !.cipher = c,
              !.readCiphers = IF L.datagram /\ L.direction = DirectionRead
                              THEN [e \in {epoch} |-> c] ELSE L.readCiphers]

\* a Rekey that refuses to go back to a smaller epoch
RekeyLayerForward(L, epoch, c) ==
    IF epoch < heap[L.cipher].epoch THEN L ELSE [L EXCEPT !.cipher = c]

\* the layer after Rekey installed heap object c for epoch
RekeyLayer(L, epoch, c) ==
    [L EXCEPT !.cipher = c,
              !.readCiphers =
                  IF L.datagram /\ L.direction = DirectionRead
                  THEN [e \in DOMAIN L.readCiphers \cup {epoch} |->
                           IF e = epoch THEN c ELSE L.readCiphers[e]]
                  ELSE L.readCiphers]

\* factoryOk: whether factory(key) returns an AEAD or an error
Rekey(id, epoch, factoryOk, keys) ==
    /\ CanCall(id)
    /\ IF ~factoryOk
       THEN /\ last' = Ret(id, "Rekey", "FactoryError", Nil, 0, epoch, Nil)
            /\ UNCHANGED <<layers, heap, hist>>
       ELSE LET c == FreshId(heap)
                h == [i \in DOMAIN heap \cup {c} |->
                         IF i = c THEN newCipherStateAead(epoch, keys.key, keys.iv)
                         ELSE heap[i]]
                ls == [layers EXCEPT ![id] = RekeyLayer(layers[id], epoch, c)]
            IN /\ layers' = ls
               /\ heap' = Collect(h, ls)
               /\ hist' = [hist EXCEPT !.keys = @ \cup {keys.key},
                                       !.keyReused = @ \/ keys.key \in hist.keys]
               /\ last' = Ret(id, "Rekey", "nil", Nil, 0, epoch, Nil)
    /\ nops' = nops - 1
    /\ UNCHANGED <<callers, oprf, allowWrongVersionNumber, conn, codec>>

\* a delete that leaves the entry in the map
deleteNothing(m, epoch) == m

\* delete(r.readCiphers, epoch)
delete(m, epoch) == [e \in DOMAIN m \ {epoch} |-> m[e]]

\* assert(ok) panics when the epoch is not in the map
DiscardReadKey(id, epoch) ==
    /\ CanCall(id)
    /\ LET L == layers[id]
       IN IF ~L.datagram
          THEN /\ last' = Ret(id, "DiscardReadKey", "nil", Nil, 0, epoch, Nil)
               /\ UNCHANGED <<layers, heap>>
          ELSE IF epoch \notin DOMAIN L.readCiphers
          THEN /\ last' = Ret(id, "DiscardReadKey", "panic:assert", Nil, 0, epoch, Nil)
               /\ layers' = [layers EXCEPT ![id].pc = "panicked"]
               /\ UNCHANGED heap
          ELSE LET ls == [layers EXCEPT ![id].readCiphers = delete(L.readCiphers, epoch)]
               IN /\ layers' = ls
                  /\ heap' = Collect(heap, ls)
                  /\ last' = Ret(id, "DiscardReadKey", "nil", Nil, 0, epoch, Nil)
    /\ nops' = nops - 1
    /\ UNCHANGED <<callers, oprf, allowWrongVersionNumber, conn, hist, codec>>

----------------------------------------------------------------------------
(* The read path *)

NextResult(err, pt, cached, h, rd) ==
    [err |-> err, pt |-> pt, cached |-> cached, heap |-> h, rd |-> rd]

\* an error return that hands out the record under construction with the error
ErrorReturnWithRecord(err, pt, h, rd) == NextResult(err, Some(pt), Nil, h, rd)

\* return nil, err: pt is the record under construction, which is dropped
ErrorReturn(err, pt, h, rd) == NextResult(err, Nil, Nil, h, rd)

\* nextRecord past its cache check, on layer L with heap h and inbound items
\* rd. One transport read yields one complete frame, whose body is as long as
\* its header says.
fetchRecord(L, h, rd, allowOldEpoch) ==
    IF rd = <<>> THEN ErrorReturn("WouldBlock", NoRecord, h, rd)
    ELSE IF Head(rd).kind = "err" THEN ErrorReturn("TransportError", NoRecord, h, Tail(rd))
    ELSE
        LET header == Head(rd).header
            body == Head(rd).body
            rest == Tail(rd)
            cur == h[L.cipher]
            seq == IF L.datagram THEN header.seq ELSE cur.seq
            epoch == seq.e
            known == epoch \in DOMAIN L.readCiphers
            sel == IF L.datagram /\ known /\ epoch # cur.epoch
                   THEN L.readCiphers[epoch] ELSE L.cipher
            pt0 == TLSPlaintext(header.ct, 0, Zero64, body)
            dec == decrypt(L.direction, cur, seq, header, pt0)
            pt1 == IF h[sel].cipher # "nil" THEN dec.pt ELSE pt0
            pt == [pt1 EXCEPT !.epoch = h[sel].epoch]
            inc == incrementSequenceNumber(h[sel])
        IN IF header.ct \notin KnownTypes
           THEN ErrorReturn("UnknownContentType", pt0, h, rest)
           ELSE IF ~allowWrongVersionNumber /\ header.ver # 3 * 256 + 1
           THEN ErrorReturn("InvalidVersion", pt0, h, rest)
           ELSE IF header.len > maxFragmentLen + 256
           THEN ErrorReturn("CiphertextTooBig", pt0, h, rest)
           ELSE IF L.datagram /\ ~known
           THEN ErrorReturn("WouldBlock", pt0, h, rest)
           ELSE IF L.datagram /\ epoch # cur.epoch /\ ~allowOldEpoch
           THEN ErrorReturn("WouldBlock", pt0, h, rest)
           ELSE IF h[sel].cipher # "nil" /\ dec.err # "nil"
           THEN ErrorReturn(dec.err, pt0, h, rest)
           ELSE IF BodyLen(pt.fragment) > maxFragmentLen
           THEN ErrorReturn("PlaintextTooBig", pt, h, rest)
           ELSE IF inc.panic
           THEN NextResult("panic:wraparound", Nil, Some(pt), h, rest)
           ELSE NextResult("nil", Some(pt), Some(pt), [h EXCEPT ![sel] = inc.cs], rest)

\* the frame a call of nextRecord takes off the transport, as a record with
\* the content type and the epoch of its header and no fragment; Nil when the
\* call answers from the cache or there is no frame
FrameTaken(L, rd) ==
    IF L.cachedRecord.nil /\ rd # <<>> /\ Head(rd).kind = "rec"
    THEN Some(TLSPlaintext(Head(rd).header.ct, Head(rd).header.seq.e, Zero64,
                           Raw(Bytes(0, <<>>))))
    ELSE Nil

\* nextRecord without its cache check: every call reads the transport
nextRecordNoCache(L, h, rd, allowOldEpoch) == fetchRecord(L, h, rd, allowOldEpoch)

\* nextRecord: the error and record it returns, and the cache, heap and
\* inbound items it leaves
nextRecord(L, h, rd, allowOldEpoch) ==
    IF ~L.cachedRecord.nil
    THEN NextResult(L.cachedError, L.cachedRecord, L.cachedRecord, h, rd)
    ELSE fetchRecord(L, h, rd, allowOldEpoch)

\* a loop that is left on every error, would-block included
retriesNever(block, err) == FALSE

\* PeekRecordType: the loop goes round when block is set and nextRecord
\* returned would-block
retries(block, err) == block /\ err = "WouldBlock"

\* one pass of the loop of PeekRecordType; a blocking peek that met would-block
\* stays in the loop (pc = "peek")
PeekPass(id, block) ==
    LET r == nextRecord(layers[id], heap, conn[layers[id].conn], FALSE)
        retry == retries(block, r.err)
        flag == IF block THEN 1 ELSE 0
    IN /\ layers' = [layers EXCEPT ![id].cachedRecord = r.cached,
                                   ![id].pc = IF r.err \in Panics THEN "panicked"
                                              ELSE IF retry THEN "peek" ELSE "idle"]
       /\ heap' = r.heap
       /\ conn' = [conn EXCEPT ![layers[id].conn] = r.rd]
       /\ last' = IF retry THEN Ret(id, "PeekRecordType", "retrying", Nil, 0, flag, Nil)
                  ELSE Ret(id, "PeekRecordType", r.err, Nil,
                           IF r.err = "nil" THEN r.pt.pt.contentType ELSE 0, flag, Nil)
       /\ hist' = IF r.err = "nil"
                  THEN [hist EXCEPT !.peekCt = r.pt.pt.contentType, !.peekN = @ + 1]
                  ELSE hist

PeekRecordType(id, block) ==
    /\ CanCall(id)
    /\ PeekPass(id, block)
    /\ nops' = nops - 1
    /\ UNCHANGED <<callers, oprf, allowWrongVersionNumber, codec>>

\* the next pass of a blocking peek that is still in its loop
PeekRetry(id) ==
    /\ id \in DOMAIN layers
    /\ layers[id].pc = "peek"
    /\ PeekPass(id, TRUE)
    /\ UNCHANGED <<callers, oprf, allowWrongVersionNumber, nops, codec>>

\* a read that forgets to empty the cache
ReadCallKeepsCache(id, allowOldEpoch, op) ==
    /\ CanCall(id)
    /\ LET r == nextRecord(layers[id], heap, conn[layers[id].conn], allowOldEpoch)
       IN /\ layers' = [layers EXCEPT ![id].cachedRecord = r.cached,
                                      ![id].pc = IF r.err \in Panics THEN "panicked" ELSE @]
          /\ heap' = r.heap
          /\ conn' = [conn EXCEPT ![layers[id].conn] = r.rd]
          /\ last' = Ret(id, op, r.err, r.pt, 0, hist.peekN,
                         FrameTaken(layers[id], conn[layers[id].conn]))
          /\ hist' = [hist EXCEPT
                        !.got = IF hist.log /\ r.err = "nil" THEN Append(@, r.pt.pt) ELSE @,
                        !.peekCt = 0,
                        !.peekN = 0]
    /\ nops' = nops - 1
    /\ UNCHANGED <<callers, oprf, allowWrongVersionNumber, codec>>

\* ReadRecord and ReadRecordAnyEpoch: nextRecord, then the cache is emptied
ReadCall(id, allowOldEpoch, op) ==
    /\ CanCall(id)
    /\ LET r == nextRecord(layers[id], heap, conn[layers[id].conn], allowOldEpoch)
       IN /\ layers' = IF r.err \in Panics
                       THEN [layers EXCEPT ![id].cachedRecord = r.cached,
                                           ![id].pc = "panicked"]
                       ELSE [layers EXCEPT ![id].cachedRecord = Nil,
                                           ![id].cachedError = "nil"]
          /\ heap' = r.heap
          /\ conn' = [conn EXCEPT ![layers[id].conn] = r.rd]
          /\ last' = Ret(id, op, r.err, r.pt, 0, hist.peekN,
                         FrameTaken(layers[id], conn[layers[id].conn]))
          /\ hist' = [hist EXCEPT
                        !.got = IF hist.log /\ r.err = "nil" THEN Append(@, r.pt.pt) ELSE @,
                        !.peekCt = 0,
                        !.peekN = 0]
    /\ nops' = nops - 1
    /\ UNCHANGED <<callers, oprf, allowWrongVersionNumber, codec>>

ReadRecord(id) == ReadCall(id, FALSE, "ReadRecord")

ReadRecordAnyEpoch(id) == ReadCall(id, TRUE, "ReadRecordAnyEpoch")

----------------------------------------------------------------------------
(* The write path *)

\* dtlsConvertVersion: the DTLS wire version, or -1 where it panics
dtlsConvertVersion(v) ==
    IF v = tls12Version THEN 65277
    ELSE IF v = tls10Version THEN 65279
    ELSE -1

\* an outer type that is the true type whether or not the record is sealed
outerTypeTrue(cipher, pt) == pt.contentType

\* the content type of the header: ApplicationData when the state has an AEAD
outerType(cipher, pt) ==
    IF cipher.cipher # "nil" THEN RecordTypeApplicationData ELSE pt.contentType

\* a padding check that lets padding on cleartext through
paddingAllowed(cipher, padLen) == FALSE

\* padding was asked for on a cleartext record
paddingOnCleartext(cipher, padLen) == cipher.cipher = "nil" /\ padLen > 0

\* a size check with the slack of the read path
recordTooBigSlack(ciphertext) == BodyLen(ciphertext) > maxFragmentLen + 256

\* len(ciphertext) > maxFragmentLen
recordTooBig(ciphertext) == BodyLen(ciphertext) > maxFragmentLen

\* writeRecordWithPadding(pt, r.cipher, padLen): [err, wrote, frame, cs, sealed].
\* wrote: conn.Write was called with frame; cs: the cipher state afterwards;
\* connOk: whether conn.Write returns nil
writeRecordWithPadding(L, cipher, pt, padLen, connOk) ==
    LET seq == combineSeq(cipher, L.datagram)
        aead == cipher.cipher # "nil"
        length == BodyLen(pt.fragment) + (IF aead THEN 1 + padLen + AEADOverhead ELSE 0)
        contentType == outerType(cipher, pt)
        version == IF L.datagram THEN dtlsConvertVersion(L.version) ELSE L.version
        header == Header(contentType % 256, version,
                         IF L.datagram THEN seq ELSE Zero64, length % 65536)
        enc == encrypt(L.direction, cipher, seq, header, pt, padLen)
        ciphertext == IF aead THEN enc.body ELSE pt.fragment
        inc == incrementSequenceNumber(cipher)
        stop(err) == [err |-> err, wrote |-> FALSE, frame |-> Frame(header, ciphertext),
                      cs |-> cipher, sealed |-> FALSE]
    IN IF version < 0 THEN stop("panic:version")
       ELSE IF aead /\ enc.err # "nil" THEN stop(enc.err)
       ELSE IF paddingOnCleartext(cipher, padLen) THEN stop("PaddingOnCleartext")
       ELSE IF recordTooBig(ciphertext) THEN stop("RecordTooBig")
       ELSE IF inc.panic THEN stop("panic:wraparound")
       ELSE [err |-> IF connOk THEN "nil" ELSE "TransportError",
             wrote |-> TRUE, frame |-> Frame(header, ciphertext),
             cs |-> inc.cs, sealed |-> aead]

\* WriteRecord is WriteRecordWithPadding with padLen = 0
WriteRecordWithPadding(id, pt, padLen, connOk) ==
    /\ CanCall(id)
    /\ LET L == layers[id]
           w == writeRecordWithPadding(L, heap[L.cipher], pt, padLen, connOk)
           use == [key |-> w.frame.body.key, nonce |-> w.frame.body.nonce]
       IN /\ heap' = [heap EXCEPT ![L.cipher] = w.cs]
          /\ layers' = IF w.err \in Panics THEN [layers EXCEPT ![id].pc = "panicked"]
                       ELSE layers
          /\ conn' = IF w.wrote /\ connOk
                     THEN [conn EXCEPT ![L.conn] = Append(@, w.frame)]
                     ELSE conn
          /\ hist' = [hist EXCEPT
                        !.seals = IF w.wrote /\ w.sealed THEN @ \cup {use} ELSE @,
                        !.nonceReused = @ \/ (w.wrote /\ w.sealed /\ use \in hist.seals),
                        !.faulty = @ \/ (w.wrote /\ ~connOk),
                        !.sent = IF hist.log /\ w.wrote /\ connOk THEN Append(@, pt) ELSE @]
          /\ last' = Ret(id, "WriteRecord", w.err, Nil, 0, padLen, Some(pt))
    /\ nops' = nops - 1
    /\ UNCHANGED <<callers, oprf, allowWrongVersionNumber, codec>>

----------------------------------------------------------------------------
(* Inputs of the calls and the peer's records *)

Epochs == {0, 1, 2}

RekeyEpochs == {1, 2}

IVa == [head |-> 7, x |-> U64(0, 0, 5)]
IVb == [head |-> 7, x |-> U64(3, 0, 6)]

KeySets == {[key |-> "ka", iv |-> IVa], [key |-> "kb", iv |-> IVb]}

Versions == {tls10Version, tls12Version}

ResetSeqs == {Zero64, U64(0, Limb - 1, Limb - 2), SeqLimit}

BadType == 99

Fragments ==
    {Raw(Bytes(0, <<1, 0>>)), Raw(Bytes(maxFragmentLen - AEADOverhead - 1, <<>>))}

WriteTypes == KnownTypes

\* records of every type: short ones, one whose fragment is just short
\* enough to be sealed unpadded, one of exactly 2^14 bytes and one of a byte
\* more
WriteInputs ==
    {TLSPlaintext(ct, 0, Zero64, Raw(Bytes(0, <<1, 0>>))) :
        ct \in {RecordTypeHandshake, RecordTypeAlert}}
    \cup {TLSPlaintext(RecordTypeAck, 0, Zero64,
                       Raw(Bytes(maxFragmentLen - AEADOverhead - 1, <<>>))),
          TLSPlaintext(RecordTypeApplicationData, 0, Zero64, Raw(Bytes(0, <<>>))),
          TLSPlaintext(RecordTypeApplicationData, 0, Zero64, Raw(Bytes(maxFragmentLen, <<>>))),
          TLSPlaintext(RecordTypeHandshake, 0, Zero64,
                       Raw(Bytes(maxFragmentLen + 1, <<>>)))}

WritePads == {0, 1}

\* the write calls of a write layer: every record with every padding on a
\* transport that takes it, and the short handshake record on one that fails
WriteCalls ==
    {[pt |-> pt, padLen |-> padLen, connOk |-> TRUE] :
        pt \in WriteInputs, padLen \in WritePads}
    \cup {[pt |-> TLSPlaintext(RecordTypeHandshake, 0, Zero64, Raw(Bytes(0, <<1, 0>>))),
           padLen |-> padLen, connOk |-> FALSE] : padLen \in WritePads}

\* the frame a peer in cipher state c sends: payload sealed under c
PeerSealed(c, datagram, ver, payload) ==
    LET seq == combineSeq(c, datagram)
        header == Header(RecordTypeApplicationData, ver,
                         IF datagram THEN seq ELSE Zero64, BLen(payload) + AEADOverhead)
    IN Frame(header, Seal(c.cipher, computeNonce(c, seq), payload, header))

\* a cleartext frame with outer type ct
PeerClear(epoch, datagram, ct, ver, body) ==
    Frame(Header(ct, ver, IF datagram THEN U64(epoch, 0, 0) ELSE Zero64, BLen(body)),
          Raw(body))

\* the cipher states a peer may be writing under
PeerStates(datagram) ==
    IF datagram
    THEN {CipherState(e, Zero64, ks.iv, ks.key) : e \in RekeyEpochs, ks \in KeySets}
    ELSE {CipherState(1, n, ks.iv, ks.key) : n \in {Zero64, U64(0, 0, 1)}, ks \in KeySets}

PeerA == CipherState(1, Zero64, IVa, "ka")

\* a handshake fragment <<1>> with its content type, as encrypt lays it out
GoodPayload == Bytes(0, <<1, RecordTypeHandshake>>)

\* other plaintexts a peer may seal: an alert with one byte of padding, an
\* all-zero plaintext, an inner type that is no record type
OddPayloads ==
    {Bytes(0, <<RecordTypeAlert, 0>>), Bytes(0, <<0, 0>>), Bytes(0, <<1, 7>>)}

\* what the transport may deliver to a layer: a read error, cleartext frames
\* (well formed, unknown type, other version, oversized), sealed frames of a
\* peer, and one with a byte flipped
Deliverable(datagram) ==
    LET es == IF datagram THEN Epochs ELSE {0}
        v == 3 * 256 + 1
    IN {ReadError}
       \cup {PeerClear(e, datagram, RecordTypeHandshake, v, Bytes(0, <<1>>)) : e \in es}
       \cup {PeerClear(0, datagram, BadType, v, Bytes(0, <<1>>)),
             PeerClear(0, datagram, RecordTypeHandshake, tls12Version, Bytes(0, <<1>>)),
             PeerClear(0, datagram, RecordTypeHandshake, v, Bytes(maxFragmentLen + 257, <<>>)),
             PeerClear(0, datagram, RecordTypeHandshake, v, Bytes(maxFragmentLen + 1, <<>>))}
       \cup {PeerSealed(c, datagram, v, GoodPayload) : c \in PeerStates(datagram)}
       \cup {PeerSealed(PeerA, datagram, v, p) : p \in OddPayloads}
       \cup {LET f == PeerSealed(PeerA, datagram, v, GoodPayload)
             IN [f EXCEPT !.body = Corrupt(f.body)]}

\* the transport has an item for the layer to read. A call reads at most one
\* item and no call looks at what is behind it, so the peer's items are handed
\* over one at a time, each when the one before it was read.
Deliver(id, item) ==
    /\ id \in DOMAIN layers
    /\ layers[id].pc # "panicked"
    /\ conn[layers[id].conn] = <<>>
    /\ conn' = [conn EXCEPT ![layers[id].conn] = Append(@, item)]
    /\ hist' = [hist EXCEPT !.faulty = @ \/ item.kind = "err"]
    /\ UNCHANGED <<callers, oprf, allowWrongVersionNumber, layers, heap, last, nops, codec>>

----------------------------------------------------------------------------
(* Spec: the read side of a connection, any peer. The read path never reads  *)
(* r.version, so SetVersion is left to the write side.                       *)

InitLayer(dir, budget) ==
    /\ allowWrongVersionNumber \in BOOLEAN
    /\ \E datagram \in BOOLEAN :
          layers = [i \in {"L"} |-> NewRecordLayer("c", dir, datagram, 0)]
    /\ heap = [i \in {0} |-> newCipherStateNull]
    /\ conn = [i \in {"c"} |-> <<>>]
    /\ last = NoCall
    /\ nops = budget
    /\ hist = NoHist
    /\ codec = CodecOff
    /\ oprf = OprfOff
    /\ callers = CallersOff

Init == InitLayer(DirectionRead, MaxOps)

Next ==
    \/ \E seq \in ResetSeqs : ResetClear("L", seq)
    \/ \E e \in RekeyEpochs, ok \in BOOLEAN, ks \in KeySets : Rekey("L", e, ok, ks)
    \/ \E e \in Epochs : DiscardReadKey("L", e)
    \/ \E block \in BOOLEAN : PeekRecordType("L", block)
    \/ PeekRetry("L")
    \/ ReadRecord("L")
    \/ ReadRecordAnyEpoch("L")
    \/ \E item \in Deliverable(layers["L"].datagram) : Deliver("L", item)

Spec == Init /\ [][Next]_vars

----------------------------------------------------------------------------
(* SpecWrite: the write side of a connection *)

InitWrite == InitLayer(DirectionWrite, MaxWriteOps)

NextWrite ==
    \/ \E v \in Versions : SetVersion("L", v)
    \/ \E seq \in ResetSeqs : ResetClear("L", seq)
    \/ \E e \in RekeyEpochs, ok \in BOOLEAN, ks \in KeySets : Rekey("L", e, ok, ks)
    \/ \E w \in WriteCalls : WriteRecordWithPadding("L", w.pt, w.padLen, w.connOk)

SpecWrite == InitWrite /\ [][NextWrite]_vars

----------------------------------------------------------------------------
(* SpecPipe: a stream write layer W and a stream read layer R on the two    *)
(* ends of one connection, which delivers what W writes to R in order. The   *)
(* transport may fail a write or a read (hist.faulty). Both layers keep the  *)
(* version they were constructed with.                                       *)

\* the version check is on, as in production: both ends are this code and
\* write the version the check expects
InitPipe ==
    /\ allowWrongVersionNumber = FALSE
    /\ layers = [i \in {"W", "R"} |->
                    IF i = "W" THEN NewRecordLayer("c", DirectionWrite, FALSE, 0)
                    ELSE NewRecordLayer("c", DirectionRead, FALSE, 1)]
    /\ heap = [i \in {0, 1} |-> newCipherStateNull]
    /\ conn = [i \in {"c"} |-> <<>>]
    /\ last = NoCall
    /\ nops = MaxPipeOps
    /\ hist = NoHist
    /\ codec = CodecOff
    /\ oprf = OprfOff
    /\ callers = CallersOff

\* the handshake switches both sides to the same epoch, key and IV while
\* nothing is in flight and nothing is cached: Rekey on W and Rekey on R
PipeRekey(epoch, keys) ==
    /\ CanCall("W") /\ CanCall("R")
    /\ conn["c"] = <<>>
    /\ layers["R"].cachedRecord.nil
    /\ LET cw == FreshId(heap)
           hw == [i \in DOMAIN heap \cup {cw} |->
                     IF i = cw THEN newCipherStateAead(epoch, keys.key, keys.iv)
                     ELSE heap[i]]
           cr == FreshId(hw)
           hr == [i \in DOMAIN hw \cup {cr} |->
                     IF i = cr THEN newCipherStateAead(epoch, keys.key, keys.iv)
                     ELSE hw[i]]
           ls == [layers EXCEPT !["W"] = RekeyLayer(layers["W"], epoch, cw),
                                !["R"] = RekeyLayer(layers["R"], epoch, cr)]
       IN /\ layers' = ls
          /\ heap' = Collect(hr, ls)
    /\ hist' = [hist EXCEPT !.keys = @ \cup {keys.key},
                            !.keyReused = @ \/ keys.key \in hist.keys,
                            !.log = TRUE, !.sent = <<>>, !.got = <<>>]
    /\ last' = Ret("R", "Rekey", "nil", Nil, 0, epoch, Nil)
    /\ nops' = nops - 1
    /\ UNCHANGED <<callers, oprf, allowWrongVersionNumber, conn, codec>>

PipeInputs ==
    {TLSPlaintext(RecordTypeHandshake, 0, Zero64, Raw(Bytes(0, <<1, 0>>))),
     TLSPlaintext(RecordTypeAlert, 0, Zero64, Raw(Bytes(0, <<>>))),
     TLSPlaintext(RecordTypeApplicationData, 0, Zero64,
                  Raw(Bytes(maxFragmentLen - AEADOverhead - 1, <<>>)))}

NextPipe ==
    \/ \E e \in RekeyEpochs, ks \in KeySets : PipeRekey(e, ks)
    \/ \E pt \in PipeInputs, padLen \in WritePads, ok \in BOOLEAN :
          WriteRecordWithPadding("W", pt, padLen, ok)
    \/ Deliver("R", ReadError)
    \/ \E block \in BOOLEAN : PeekRecordType("R", block)
    \/ PeekRetry("R")
    \/ ReadRecord("R")

SpecPipe == InitPipe /\ [][NextPipe]_vars

----------------------------------------------------------------------------
(* SpecVersion: a stream write layer W and a stream read layer R on one     *)
(* connection, each of which may be given a version by SetVersion; version   *)
(* checking is on or off.                                                    *)

MaxVersionOps == 4

InitVersion ==
    /\ allowWrongVersionNumber \in BOOLEAN
    /\ layers = [i \in {"W", "R"} |->
                    IF i = "W" THEN NewRecordLayer("c", DirectionWrite, FALSE, 0)
                    ELSE NewRecordLayer("c", DirectionRead, FALSE, 1)]
    /\ heap = [i \in {0, 1} |-> newCipherStateNull]
    /\ conn = [i \in {"c"} |-> <<>>]
    /\ last = NoCall
    /\ nops = MaxVersionOps
    /\ hist = NoHist
    /\ codec = CodecOff
    /\ oprf = OprfOff
    /\ callers = CallersOff

NextVersion ==
    \/ \E v \in Versions : SetVersion("W", v)
    \/ \E v \in Versions : SetVersion("R", v)
    \/ \E pt \in PipeInputs : WriteRecordWithPadding("W", pt, 0, TRUE)
    \/ ReadRecord("R")

SpecVersion == InitVersion /\ [][NextVersion]_vars

----------------------------------------------------------------------------
(* SpecCodec: encrypt and decrypt on their own. Init draws the inputs: a    *)
(* fragment, type and padding for encrypt, or a plaintext that a peer holding *)
(* the key seals as it is.                                                   *)

MaxFragLen == 2

CodecBytes == {0, 1, RecordTypeApplicationData}

CodecStrings == UNION {[1..n -> CodecBytes] : n \in 0..MaxFragLen}

CodecFragments == {Bytes(0, s) : s \in CodecStrings} \cup {Bytes(maxFragmentLen, <<0>>)}

CodecSeqs == {Zero64, U64(0, 0, 1), U64(0, Limb - 1, Limb - 1)}

\* the header writeRecordWithPadding builds for a sealed body of bodyLen bytes
CodecHeader(datagram, seq, bodyLen) ==
    Header(RecordTypeApplicationData, IF datagram THEN 65277 ELSE tls12Version,
           IF datagram THEN seq ELSE Zero64, bodyLen % 65536)

InitCodec ==
    /\ allowWrongVersionNumber = FALSE
    /\ layers = <<>>
    /\ heap = <<>>
    /\ conn = <<>>
    /\ last = NoCall
    /\ nops = 0
    /\ hist = NoHist
    /\ oprf = OprfOff
    /\ callers = CallersOff
    /\ \E ks \in KeySets, rks \in KeySets, e \in RekeyEpochs, n \in CodecSeqs,
          datagram \in BOOLEAN, f \in CodecFragments, ct \in KnownTypes,
          padLen \in 0..MaxPad, peer \in BOOLEAN :
          LET wc == CipherState(e, n, ks.iv, ks.key)
              seq == combineSeq(wc, datagram)
              plain == IF peer THEN BLen(f) ELSE BLen(f) + 1 + padLen
          IN codec = [pc |-> IF peer THEN "peer" ELSE "input",
                      peer |-> peer,
                      wc |-> wc,
                      rc |-> CipherState(e, n, rks.iv, rks.key),
                      seq |-> seq,
                      header |-> CodecHeader(datagram, seq, plain + AEADOverhead),
                      pt |-> TLSPlaintext(IF peer THEN 0 ELSE ct, 0, Zero64, Raw(f)),
                      padLen |-> IF peer THEN 0 ELSE padLen,
                      tampered |-> FALSE,
                      body |-> Raw(Bytes(0, <<>>)),
                      out |-> DecryptFail("nil")]

\* the write layer encrypts the input
CodecEncrypt ==
    /\ codec.pc = "input"
    /\ codec' = [codec EXCEPT
                    !.pc = "sealed",
                    !.body = encrypt(DirectionWrite, codec.wc, codec.seq, codec.header,
                                     codec.pt, codec.padLen).body]
    /\ UNCHANGED <<callers, oprf, allowWrongVersionNumber, layers, heap, conn, last, nops, hist>>

\* a peer holding the key seals the plaintext pt.fragment as it is
CodecPeerSeal ==
    /\ codec.pc = "peer"
    /\ codec' = [codec EXCEPT
                    !.pc = "sealed",
                    !.body = Seal(codec.wc.cipher, computeNonce(codec.wc, codec.seq),
                                  codec.pt.fragment.data, codec.header)]
    /\ UNCHANGED <<callers, oprf, allowWrongVersionNumber, layers, heap, conn, last, nops, hist>>

\* a byte of the ciphertext is flipped on the way
CodecTamper ==
    /\ codec.pc = "sealed"
    /\ ~codec.tampered
    /\ codec' = [codec EXCEPT !.tampered = TRUE, !.body = Corrupt(codec.body)]
    /\ UNCHANGED <<callers, oprf, allowWrongVersionNumber, layers, heap, conn, last, nops, hist>>

\* the read layer, whose r.cipher is rc, decrypts the body
CodecDecrypt ==
    /\ codec.pc = "sealed"
    /\ codec' = [codec EXCEPT
                    !.pc = "opened",
                    !.out = decrypt(DirectionRead, codec.rc, codec.seq, codec.header,
                                    TLSPlaintext(codec.header.ct, 0, Zero64, codec.body))]
    /\ UNCHANGED <<callers, oprf, allowWrongVersionNumber, layers, heap, conn, last, nops, hist>>

NextCodec == CodecEncrypt \/ CodecPeerSeal \/ CodecTamper \/ CodecDecrypt

SpecCodec == InitCodec /\ [][NextCodec]_vars

----------------------------------------------------------------------------
(* SpecOprf: a DHOPRF client and a server with key k make exchanges, one     *)
(* after the other. The curve group is the cyclic group of prime order       *)
(* GroupOrder, a point written as its multiple of the base point, 0 being    *)
(* the point at infinity. The hash is an injective function of what is       *)
(* written to it.                                                            *)

MaxExchanges == 2

\* crv.Params().N
GroupOrder == 7

\* elliptic.GenerateKey draws the scalar from 1..N-1
Scalars == 1..(GroupOrder - 1)

\* crv.Add and crv.ScalarMult
PointAdd(P, Q) == (P + Q) % GroupOrder
ScalarMult(P, s) == (P * s) % GroupOrder

\* crv.ScalarBaseMult: the public point of elliptic.GenerateKey
ScalarBaseMult(s) == s % GroupOrder

\* the inputs x of the client, and HashToCurve on them: a curve point, never
\* the point at infinity; x1 and x3 stand for inputs with the same point
OprfInputs == {"x1", "x2", "x3"}

HashToCurve(x) == IF x = "x2" THEN 3 ELSE 2

\* elliptic.Marshal followed by elliptic.Unmarshal gives the point back when
\* it is on the curve and nil for the point at infinity
OnCurve(P) == P # 0

\* hash.Sum over what was written
Hash(x, V, KH) == <<x, V, KH>>

\* HandleResponse that adds r*V back instead of (N - r)*V
unblindNoNegate(B, V, r) == PointAdd(B, ScalarMult(V, r))

\* HandleResponse: beta + (N - r) * vU
unblind(B, V, r) == PointAdd(B, ScalarMult(V, GroupOrder - r))

\* NewDHOPRFClient and NewDHOPRFServer: the client has no x, r or points yet
InitOprf ==
    /\ allowWrongVersionNumber = FALSE
    /\ layers = <<>>
    /\ heap = <<>>
    /\ conn = <<>>
    /\ last = NoCall
    /\ nops = 0
    /\ hist = NoHist
    /\ codec = CodecOff
    /\ callers = CallersOff
    /\ \E k \in Scalars :
          oprf = [pc |-> "idle",
                  server |-> [k |-> k, v |-> ScalarBaseMult(k)],
                  client |-> [x |-> <<>>, r |-> 0, h |-> 0, kh |-> 0],
                  input |-> "",
                  request |-> 0,
                  response |-> [B |-> 0, V |-> 0],
                  done |-> <<>>]

\* client.CreateRequest(x) with r the scalar GenerateKey draws
CreateRequest(x, r) ==
    /\ oprf.pc = "idle"
    /\ Len(oprf.done) < MaxExchanges
    /\ oprf' = [oprf EXCEPT
                   !.pc = "requested",
                   !.input = x,
                   !.client.r = r,
                   !.client.h = HashToCurve(x),
                   !.request = PointAdd(HashToCurve(x), ScalarBaseMult(r))]
    /\ UNCHANGED <<callers, allowWrongVersionNumber, layers, heap, conn, last, nops, hist, codec>>

\* server.HandleRequest(req): Alpha is unmarshalled; a nil point makes
\* ScalarMult panic
HandleRequest ==
    /\ oprf.pc = "requested"
    /\ oprf' = IF ~OnCurve(oprf.request)
               THEN [oprf EXCEPT !.pc = "panicked"]
               ELSE [oprf EXCEPT
                       !.pc = "responded",
                       !.response = [B |-> ScalarMult(oprf.request, oprf.server.k),
                                     V |-> oprf.server.v]]
    /\ UNCHANGED <<callers, allowWrongVersionNumber, layers, heap, conn, last, nops, hist, codec>>

\* client.HandleResponse(resp): the secret is the hash of prf.x, which no
\* method sets, of vU and of the unblinded point
HandleResponse ==
    /\ oprf.pc = "responded"
    /\ OnCurve(oprf.response.B) /\ OnCurve(oprf.response.V)
    /\ LET V == oprf.response.V
           kh == unblind(oprf.response.B, V, oprf.client.r)
       IN oprf' = [oprf EXCEPT
                     !.pc = "idle",
                     !.client.kh = kh,
                     !.done = Append(@, [x |-> oprf.input,
                                         r |-> oprf.client.r,
                                         h |-> oprf.client.h,
                                         secret |-> Hash(oprf.client.x, V, kh)])]
    /\ UNCHANGED <<callers, allowWrongVersionNumber, layers, heap, conn, last, nops, hist, codec>>

NextOprf ==
    \/ \E x \in OprfInputs, r \in Scalars : CreateRequest(x, r)
    \/ HandleRequest
    \/ HandleResponse

SpecOprf == InitOprf /\ [][NextOprf]_vars

----------------------------------------------------------------------------
(* SpecEpoch: every public operation on a write layer W and a read layer R,  *)
(* each on a transport of its own, both stream or both datagram.             *)

MaxEpochOps == 3

EpochLayers == {"W", "R"}

\* what the transport delivers to R: a read error, a cleartext handshake
\* record and a record a peer sealed in epoch 1
EpochDeliverable(datagram) ==
    {ReadError,
     PeerClear(0, datagram, RecordTypeHandshake, tls10Version, Bytes(0, <<1>>)),
     PeerSealed(PeerA, datagram, tls10Version, GoodPayload)}

\* the key material the key schedule supplies
EpochKeys == [key |-> "ka", iv |-> IVa]

InitEpoch ==
    /\ allowWrongVersionNumber = FALSE
    /\ \E datagram \in BOOLEAN :
          layers = [i \in EpochLayers |->
                       IF i = "W" THEN NewRecordLayer("cw", DirectionWrite, datagram, 0)
                       ELSE NewRecordLayer("cr", DirectionRead, datagram, 1)]
    /\ heap = [i \in {0, 1} |-> newCipherStateNull]
    /\ conn = [i \in {"cw", "cr"} |-> <<>>]
    /\ last = NoCall
    /\ nops = MaxEpochOps
    /\ hist = NoHist
    /\ codec = CodecOff
    /\ oprf = OprfOff
    /\ callers = CallersOff

NextEpoch ==
    \/ \E id \in EpochLayers : SetVersion(id, tls12Version)
    \/ \E id \in EpochLayers : ResetClear(id, Zero64)
    \/ \E id \in EpochLayers, e \in RekeyEpochs, ok \in BOOLEAN : Rekey(id, e, ok, EpochKeys)
    \/ \E id \in EpochLayers, e \in Epochs : DiscardReadKey(id, e)
    \/ \E pt \in PipeInputs : WriteRecordWithPadding("W", pt, 0, TRUE)
    \/ \E block \in BOOLEAN : PeekRecordType("R", block)
    \/ PeekRetry("R")
    \/ ReadRecord("R")
    \/ ReadRecordAnyEpoch("R")
    \/ \E item \in EpochDeliverable(layers["R"].datagram) : Deliver("R", item)

SpecEpoch == InitEpoch /\ [][NextEpoch]_vars

----------------------------------------------------------------------------
(* SpecPeek: peeks and reads on one read layer. A blocking peek that is in   *)
(* its loop keeps running: the loop of PeekRecordType has no exit but a       *)
(* return, so its next pass is always taken.                                  *)

MaxPeekOps == 2

InitPeek == InitLayer(DirectionRead, MaxPeekOps)

NextPeek ==
    \/ \E seq \in ResetSeqs : ResetClear("L", seq)
    \/ \E e \in RekeyEpochs, ok \in BOOLEAN, ks \in KeySets : Rekey("L", e, ok, ks)
    \/ \E block \in BOOLEAN : PeekRecordType("L", block)
    \/ PeekRetry("L")
    \/ ReadRecord("L")
    \/ \E item \in Deliverable(layers["L"].datagram) : Deliver("L", item)

SpecPeek == InitPeek /\ [][NextPeek]_vars /\ WF_vars(PeekRetry("L"))

----------------------------------------------------------------------------
(* SpecLock: goroutines that share one write layer W. Each performs          *)
(* sections: Lock, then a WriteRecord, or a Rekey and a WriteRecord, then     *)
(* Unlock. WriteRecord runs in its three steps: it reads r.cipher and builds  *)
(* the record from its counter, advances the counter, and hands the record to *)
(* conn.Write. A goroutine keeps the cipher state it read alive, so nothing   *)
(* is collected. Every Rekey is to the epoch after the current one.           *)

MaxSections == 2

Goroutines == {"g1", "g2"}

\* the record every goroutine writes
LockInput == TLSPlaintext(RecordTypeHandshake, 0, Zero64, Raw(Bytes(0, <<1, 0>>)))

NoLocal == [cipher |-> 0, seq |-> Zero64, frame |-> Frame(NoHeader, Raw(Bytes(0, <<>>))),
            installed |-> -1]

\* a Lock that never waits
lockFree(mu, g) == TRUE

\* sync.Mutex.Lock returns once no goroutine holds the mutex
lockAcquired(mu, g) == mu = ""

\* NewRecordLayerTLS, or NewRecordLayerDTLS and SetVersion, write direction
InitLock ==
    /\ allowWrongVersionNumber = FALSE
    /\ \E datagram \in BOOLEAN :
          layers = [i \in {"W"} |->
                       [NewRecordLayer("c", DirectionWrite, datagram, 0)
                          EXCEPT !.version = tls12Version]]
    /\ heap = [i \in {0} |-> newCipherStateNull]
    /\ conn = [i \in {"c"} |-> <<>>]
    /\ last = NoCall
    /\ nops = 0
    /\ hist = NoHist
    /\ codec = CodecOff
    /\ oprf = OprfOff
    /\ callers = [mu |-> "",
                  pc |-> [g \in Goroutines |-> "out"],
                  left |-> [g \in Goroutines |-> MaxSections],
                  plan |-> [g \in Goroutines |-> "write"],
                  loc |-> [g \in Goroutines |-> NoLocal],
                  sent |-> <<>>]

\* r.Lock(), at the start of a section that will write, or rekey and write
Lock(g, plan) ==
    /\ callers.mu # "off"
    /\ callers.pc[g] = "out"
    /\ callers.left[g] > 0
    /\ lockAcquired(callers.mu, g)
    /\ callers' = [callers EXCEPT !.mu = g,
                                  !.pc[g] = "locked",
                                  !.left[g] = @ - 1,
                                  !.plan[g] = plan,
                                  !.loc[g] = NoLocal]
    /\ UNCHANGED <<oprf, allowWrongVersionNumber, layers, heap, conn, last, nops, hist, codec>>

\* r.Rekey(epoch, factory, keys), the factory succeeding
LockedRekey(g, epoch, keys) ==
    /\ callers.mu # "off"
    /\ callers.pc[g] = "locked" /\ callers.plan[g] = "rekey"
    /\ LET c == FreshId(heap)
       IN /\ heap' = [i \in DOMAIN heap \cup {c} |->
                         IF i = c THEN newCipherStateAead(epoch, keys.key, keys.iv)
                         ELSE heap[i]]
          /\ layers' = [layers EXCEPT !["W"] = RekeyLayer(@, epoch, c)]
          /\ callers' = [callers EXCEPT !.pc[g] = "rekeyed", !.loc[g].installed = c]
    /\ UNCHANGED <<oprf, allowWrongVersionNumber, conn, last, nops, hist, codec>>

\* r.WriteRecord(pt) up to the record it built from r.cipher and its counter
WriteBuild(g, pt) ==
    /\ callers.mu # "off"
    /\ \/ callers.pc[g] = "locked" /\ callers.plan[g] = "write"
       \/ callers.pc[g] = "rekeyed"
    /\ LET L == layers["W"]
           w == writeRecordWithPadding(L, heap[L.cipher], pt, 0, TRUE)
       IN callers' = [callers EXCEPT
                        !.pc[g] = IF w.wrote THEN "built" ELSE "written",
                        !.loc[g].cipher = L.cipher,
                        !.loc[g].seq = heap[L.cipher].seq,
                        !.loc[g].frame = w.frame]
    /\ UNCHANGED <<oprf, allowWrongVersionNumber, layers, heap, conn, last, nops, hist, codec>>

\* cipher.incrementSequenceNumber() on the state the call read
WriteCount(g) ==
    /\ callers.mu # "off"
    /\ callers.pc[g] = "built"
    /\ ~incrementSequenceNumber(heap[callers.loc[g].cipher]).panic
    /\ heap' = [heap EXCEPT ![callers.loc[g].cipher] = incrementSequenceNumber(@).cs]
    /\ callers' = [callers EXCEPT !.pc[g] = "counted"]
    /\ UNCHANGED <<oprf, allowWrongVersionNumber, layers, conn, last, nops, hist, codec>>

\* r.conn.Write(record), which returns nil (ok) or an error
WriteSend(g, ok) ==
    /\ callers.mu # "off"
    /\ callers.pc[g] = "counted"
    /\ conn' = IF ok THEN [conn EXCEPT !["c"] = Append(@, callers.loc[g].frame)] ELSE conn
    /\ callers' = [callers EXCEPT
                     !.pc[g] = "written",
                     !.sent = Append(@, [g |-> g,
                                         cipher |-> callers.loc[g].cipher,
                                         seq |-> callers.loc[g].seq,
                                         installed |-> callers.loc[g].installed])]
    /\ UNCHANGED <<oprf, allowWrongVersionNumber, layers, heap, last, nops, hist, codec>>

\* r.Unlock()
Unlock(g) ==
    /\ callers.mu # "off"
    /\ callers.pc[g] = "written"
    /\ callers' = [callers EXCEPT !.mu = "", !.pc[g] = "out"]
    /\ UNCHANGED <<oprf, allowWrongVersionNumber, layers, heap, conn, last, nops, hist, codec>>

NextLock ==
    \/ \E g \in Goroutines, plan \in {"write", "rekey"} : Lock(g, plan)
    \/ \E g \in Goroutines : LockedRekey(g, Epoch("W") + 1, EpochKeys)
    \/ \E g \in Goroutines : WriteBuild(g, LockInput)
    \/ \E g \in Goroutines : WriteCount(g)
    \/ \E g \in Goroutines, ok \in BOOLEAN : WriteSend(g, ok)
    \/ \E g \in Goroutines : Unlock(g)

SpecLock == InitLock /\ [][NextLock]_vars

----------------------------------------------------------------------------
(* The claims. A step is told apart by what it leaves in last and nops.     *)

\* the step is a call of op on layer id
CallStep(id, op) == nops' = nops - 1 /\ last'.id = id /\ last'.op = op

\* the step is a call of ReadRecord or ReadRecordAnyEpoch on layer id
ReadStep(id) == CallStep(id, "ReadRecord") \/ CallStep(id, "ReadRecordAnyEpoch")

\* the step is a call of PeekRecordType on layer id, or a later pass of a
\* blocking one that found something to read
PeekStep(id) ==
    \/ CallStep(id, "PeekRecordType")
    \/ /\ layers[id].pc = "peek"
       /\ conn[layers[id].conn] # <<>>
       /\ conn'[layers[id].conn] = Tail(conn[layers[id].conn])

\* no cipher state's counter changes in the step
SeqsKept == \A i \in DOMAIN heap : i \in DOMAIN heap' /\ heap'[i].seq = heap[i].seq

\* exactly one cipher state's counter goes up by one in the step, and nothing
\* else on the heap changes
OneAdvance == \E i \in DOMAIN heap : heap' = [heap EXCEPT ![i].seq = Inc64(heap[i].seq)]

\* the step takes the first item off the layer's transport
Consumes(id) ==
    /\ conn[layers[id].conn] # <<>>
    /\ conn'[layers[id].conn] = Tail(conn[layers[id].conn])

\* a datagram read layer whose current epoch is E + 1, which still holds the
\* cipher state of epoch E, finds on its transport a handshake record <<1>>
\* that a peer sealed with the key and IV of epoch E
OldEpochRecordAtHead(id, E) ==
    LET L == layers[id]
    IN /\ L.datagram /\ L.pc = "idle" /\ L.cachedRecord.nil
       /\ heap[L.cipher].epoch = E + 1
       /\ heap[L.cipher].cipher # "nil"
       /\ E \in DOMAIN L.readCiphers
       /\ heap[L.readCiphers[E]].cipher # "nil"
       /\ conn[L.conn] # <<>>
       /\ Head(conn[L.conn]) =
            PeerSealed(CipherState(E, Zero64, heap[L.readCiphers[E]].iv,
                                   heap[L.readCiphers[E]].cipher),
                       TRUE, 3 * 256 + 1, GoodPayload)

\* C1 (epoch isolation, datagram mode): a record validly sealed under the key
\* of epoch E and delivered after the rekey to E + 1 is returned by
\* ReadRecordAnyEpoch with its original fragment and content type, tagged with
\* epoch E, and ReadRecord answers it with would-block and no record.
C1_EpochIsolation ==
    [][\A id \in DOMAIN layers, E \in RekeyEpochs :
          OldEpochRecordAtHead(id, E) =>
            /\ CallStep(id, "ReadRecordAnyEpoch") =>
                 /\ last'.err = "nil"
                 /\ ~last'.pt.nil
                 /\ last'.pt.pt.contentType = RecordTypeHandshake
                 /\ last'.pt.pt.fragment = Raw(Bytes(0, <<1>>))
                 /\ last'.pt.pt.epoch = E
            /\ CallStep(id, "ReadRecord") =>
                 /\ last'.err = "WouldBlock"
                 /\ last'.pt.nil]_vars

\* C2 as the spec states it: of two peeks with no read between them, the
\* second returns the type the first returned, and no peek advances a counter.
C2_PeekNeverAdvances ==
    [][\A id \in DOMAIN layers :
          PeekStep(id) =>
            /\ SeqsKept
            /\ hist.peekN > 0 => last'.err = "nil" /\ last'.ct = hist.peekCt]_vars

\* C2 (peek idempotence): once a peek has returned a content type, a peek with
\* no read in between returns the same type, reads nothing from the transport
\* and changes no cipher state and not the cache; the peek that found the cache
\* empty and fetched the record took it off the transport and advanced exactly
\* one counter by one.
C2_PeekIdempotent ==
    [][\A id \in DOMAIN layers :
          PeekStep(id) =>
            /\ hist.peekN > 0 =>
                 /\ last'.err = "nil"
                 /\ last'.ct = hist.peekCt
                 /\ heap' = heap
                 /\ conn' = conn
                 /\ layers'[id].cachedRecord = layers[id].cachedRecord
            /\ hist.peekN = 0 /\ last'.err = "nil" =>
                 /\ Consumes(id)
                 /\ OneAdvance
                 /\ last'.ct = layers'[id].cachedRecord.pt.contentType]_vars

\* a second peek has returned the type of the first while the next record
\* waits on the transport
C2_Witness ==
    /\ hist.peekN >= 2
    /\ last.op = "PeekRecordType" /\ last.err = "nil" /\ last.ct = hist.peekCt
    /\ conn["c"] # <<>>
    /\ ~layers["L"].cachedRecord.nil

\* C3 (read after peek): after a peek returned a type, the next read returns
\* exactly the cached record, of that type, without reading the transport or
\* advancing a counter, and empties the cache; every read that returns leaves
\* the cache empty, so the read after it fetches from the transport; the cache
\* holds a record only while a peeked record is pending; a record is taken off
\* the transport and its counter advanced once, when it is fetched, by the peek
\* or by the read.
C3_ReadAfterPeek ==
    [][\A id \in DOMAIN layers :
          /\ ReadStep(id) /\ hist.peekN > 0 =>
               /\ last'.err = "nil"
               /\ last'.pt = layers[id].cachedRecord
               /\ last'.pt.pt.contentType = hist.peekCt
               /\ conn' = conn
               /\ heap' = heap
          /\ ReadStep(id) /\ last'.err \notin Panics => layers'[id].cachedRecord.nil
          /\ (ReadStep(id) \/ PeekStep(id)) /\ last'.err = "nil" =>
               IF layers[id].cachedRecord.nil
               THEN Consumes(id) /\ OneAdvance
               ELSE conn' = conn /\ heap' = heap
          /\ layers'[id].pc # "panicked" =>
               (~layers'[id].cachedRecord.nil <=> hist'.peekN > 0)]_vars

\* a read has returned the record a peek fetched: one record taken off the
\* transport, one advance of the counter, the cache empty again
C3_Witness ==
    /\ last.op = "ReadRecord" /\ last.err = "nil" /\ last.arg >= 1
    /\ ~last.pt.nil
    /\ layers["L"].cachedRecord.nil
    /\ heap[layers["L"].cipher].seq = U64(0, 0, 1)
    /\ nops = MaxOps - 2

\* the step is a call of WriteRecord or WriteRecordWithPadding on layer id
WriteStep(id) == CallStep(id, "WriteRecord")

\* the step is a ReadRecord on a stream layer with nothing in its cache
StreamReadStep(id) ==
    CallStep(id, "ReadRecord") /\ ~layers[id].datagram /\ layers[id].cachedRecord.nil

\* the counter of the layer's current cipher state goes up by one, or stays
CurAdvances(id) ==
    LET c == layers[id].cipher
    IN c \in DOMAIN heap' /\ heap'[c].seq = Inc64(heap[c].seq)

CurStays(id) ==
    LET c == layers[id].cipher
    IN c \in DOMAIN heap' /\ heap'[c].seq = heap[c].seq

\* C4 as the spec states it: a read (stream mode) or write call advances the
\* cipher state's counter by one if it returns success and leaves it alone if
\* it returns an error, a transport error included.
C4_SuccessCounts ==
    [][\A id \in DOMAIN layers :
          WriteStep(id) \/ StreamReadStep(id) =>
            IF last'.err = "nil" THEN CurAdvances(id) ELSE CurStays(id)]_vars

\* C4 (sequence monotonicity): a stream read call advances the counter of its
\* cipher state by exactly one if it returns a record and not at all if it
\* returns an error; a write call advances it by exactly one if it returns
\* success or if the transport fails the write, the counter being advanced
\* before the record is handed to the transport, and not at all if it returns a
\* layer error. So after a rekey the reader's counter is the number of records
\* it fetched and the writer's counter is the number of records it handed to
\* the transport, failed writes included.
C4_SeqAdvance ==
    [][/\ \A id \in DOMAIN layers :
            /\ StreamReadStep(id) =>
                 IF last'.err = "nil" THEN CurAdvances(id) ELSE CurStays(id)
            /\ WriteStep(id) =>
                 IF last'.err \in {"nil", "TransportError"}
                 THEN CurAdvances(id) ELSE CurStays(id)
       /\ hist'.log =>
            /\ heap'[layers'["R"].cipher].seq =
                 U64(0, 0, Len(hist'.got) + IF layers'["R"].cachedRecord.nil THEN 0 ELSE 1)
            /\ Geq64(heap'[layers'["W"].cipher].seq, U64(0, 0, Len(hist'.sent)))
            /\ ~hist'.faulty =>
                 heap'[layers'["W"].cipher].seq = U64(0, 0, Len(hist'.sent))]_vars

\* under one cipher state one write succeeded and one met a transport error,
\* the writer's counter is 2, and the reader has read one record, its counter 1
C4_Witness ==
    /\ last.id = "W" /\ last.op = "WriteRecord" /\ last.err = "TransportError"
    /\ Len(hist.sent) = 1
    /\ heap[layers["W"].cipher].seq = U64(0, 0, 2)
    /\ Len(hist.got) = 1
    /\ heap[layers["R"].cipher].seq = U64(0, 0, 1)

\* the step ends layer id in the panic of the wraparound guard
Exhausts(id) ==
    /\ layers[id].pc # "panicked"
    /\ layers'[id].pc = "panicked"
    /\ last'.id = id
    /\ last'.err = "panic:wraparound"

\* C5 (sequence exhaustion): no counter ever passes 2^48 - 1, and the read or
\* write that fails at the limit has no side effect: no cipher state changes,
\* nothing is handed to the transport, no record is left in the peek cache.
C5_ExhaustionInert ==
    [][/\ \A i \in DOMAIN heap' : Geq64(SeqLimit, heap'[i].seq)
       /\ \A id \in DOMAIN layers :
            Exhausts(id) =>
              /\ heap' = heap
              /\ WriteStep(id) => conn' = conn
              /\ layers'[id].cachedRecord.nil]_vars

\* under one IV, different sequence values give different nonces
NonceSeqs == {Zero64, U64(0, 0, 1), U64(0, 1, 0), U64(1, 0, 0), U64(1, 0, 1), SeqLimit}

NonceInjective ==
    \A ks \in KeySets, s1 \in NonceSeqs, s2 \in NonceSeqs :
       LET c == newCipherStateAead(1, ks.key, ks.iv)
       IN s1 # s2 => computeNonce(c, s1) # computeNonce(c, s2)

\* C6 as the spec states it: whatever the public operations on a write layer,
\* rekeys with any key material included, no two sealed records use the same
\* key and nonce.
C6_NonceNeverReused == NonceInjective /\ ~hist.nonceReused

\* C6 (nonce uniqueness on the write path): as long as no rekey installs a key
\* that an earlier rekey installed, no two sealed records use the same key and
\* nonce; and under one IV different sequence values give different nonces.
C6_NonceUniqueFreshKeys == NonceInjective /\ (~hist.keyReused => ~hist.nonceReused)

\* two records were sealed under one key, with different nonces
C6_Witness ==
    /\ ~hist.keyReused
    /\ ~hist.nonceReused
    /\ \E a \in hist.seals, b \in hist.seals : a.key = b.key /\ a.nonce # b.nonce
    /\ last.op = "WriteRecord" /\ last.err = "nil"

\* the codec run has decrypted, under the key, IV, sequence value and header
\* it was sealed with, a body nobody touched
CodecSameKeys ==
    /\ codec.pc = "opened"
    /\ ~codec.tampered
    /\ codec.rc = codec.wc

\* C7 (codec round-trip): decrypting what encrypt made of fragment f, content
\* type t and padding p, under the same key, IV, sequence value and header,
\* returns f, t and p without error; the ciphertext is len(f) + 1 + p + AEAD
\* overhead bytes long.
C7_RoundTrip ==
    /\ codec.pc \in {"sealed", "opened"} /\ ~codec.peer =>
         BodyLen(codec.body) =
           BLen(codec.pt.fragment.data) + 1 + codec.padLen + AEADOverhead
    /\ CodecSameKeys /\ ~codec.peer =>
         /\ codec.out.err = "nil"
         /\ codec.out.pt.fragment = codec.pt.fragment
         /\ codec.out.pt.contentType = codec.pt.contentType
         /\ codec.out.padLen = codec.padLen

\* a padded fragment that ends in a zero byte has made the round trip
C7_Witness ==
    /\ CodecSameKeys /\ ~codec.peer
    /\ codec.padLen = MaxPad
    /\ codec.pt.fragment.data = Bytes(0, <<1, 0>>)
    /\ codec.out.err = "nil"
    /\ codec.out.pt.fragment.data = Bytes(0, <<1, 0>>)

\* C8 (padding boundary safety): an authenticated payload of zero bytes only,
\* the empty payload included, makes decrypt return a decrypt error: the scan
\* never indexes before position 0 and no empty fragment comes out as a
\* success.
C8_PaddingBoundary ==
    /\ codec.pc = "opened" => codec.out.err # "panic:index"
    /\ CodecSameKeys /\ AllZero(codec.body.data) =>
         codec.out.err = "DecryptError"

\* the writes and the reads of the pipe: what R has read from a pipe that
\* never failed is, record for record, what W wrote since the rekey
InOrder ==
    /\ Len(hist.got) <= Len(hist.sent)
    /\ \A i \in 1..Len(hist.got) :
          /\ hist.got[i].fragment = hist.sent[i].fragment
          /\ hist.got[i].contentType = hist.sent[i].contentType
          /\ hist.got[i].seq = U64(0, 0, i - 1)

\* C9 (stream mode end to end): after both ends were rekeyed alike, over a
\* transport that delivers in order and fails no call, the i-th ReadRecord that
\* returns a record returns the i-th record written, with its fragment, its
\* true content type and sequence value i; a read fails only with would-block
\* and only when nothing is waiting; the writer's counter is the number of
\* records it wrote, which are the records read, cached or in flight.
C9_StreamEndToEnd ==
    hist.log /\ ~hist.faulty =>
      /\ InOrder
      /\ last.id = "R" /\ last.op \in {"ReadRecord", "PeekRecordType"} =>
           last.err \in {"nil", "WouldBlock", "retrying"}
      /\ heap[layers["W"].cipher].seq = U64(0, 0, Len(hist.sent))
      /\ Len(hist.sent) =
           Len(hist.got) + Len(conn["c"]) + IF layers["R"].cachedRecord.nil THEN 0 ELSE 1

\* two records of different types were written and read back in order
C9_Witness ==
    /\ hist.log /\ ~hist.faulty
    /\ Len(hist.got) = 2
    /\ hist.got[1].contentType # hist.got[2].contentType
    /\ hist.got[2].seq = U64(0, 0, 1)
    /\ last.id = "R" /\ last.op = "ReadRecord" /\ last.err = "nil"

\* C10 (no partial record): a read returns a record and no error, or an error
\* and no record; a read or peek that returns an error or would-block leaves
\* the peek cache empty and every sequence counter where it was.
C10_NoPartialRecord ==
    [][\A id \in DOMAIN layers :
          /\ ReadStep(id) /\ last'.err \notin Panics =>
               (last'.err = "nil" <=> ~last'.pt.nil)
          /\ (ReadStep(id) \/ PeekStep(id)) /\ last'.err \notin Panics \cup {"nil"} =>
               /\ layers'[id].cachedRecord.nil
               /\ SeqsKept]_vars

\* a read of a sealed record has returned a decrypt error and no record, the
\* record gone from the transport, the cache empty, the counter still 0
C10_Witness ==
    /\ last.op = "ReadRecord" /\ last.err = "DecryptError" /\ last.pt.nil
    /\ layers["L"].cachedRecord.nil
    /\ conn["c"] = <<>>
    /\ heap[layers["L"].cipher].cipher # "nil"
    /\ heap[layers["L"].cipher].seq = Zero64

\* the cipher state layer id writes under has an AEAD
WriteSealed(id) == heap[layers[id].cipher].cipher # "nil"

\* the frames layer id has handed to its transport
Written(id) == conn[layers[id].conn]

\* C11 (content-type concealment): a record handed to the transport while the
\* write cipher state has an AEAD carries ApplicationData in its header,
\* whatever its true type, and the true type is the byte after the fragment
\* inside the sealed payload; a record written in cleartext carries its true
\* type in the header and its fragment as the body.
C11_Concealment ==
    /\ \A id \in DOMAIN layers :
         layers[id].direction = DirectionWrite =>
           \A i \in 1..Len(Written(id)) :
              Written(id)[i].body.sealed =>
                /\ Written(id)[i].header.ct = RecordTypeApplicationData
                /\ Written(id)[i].body.aad = Written(id)[i].header
    /\ last.op = "WriteRecord" /\ last.err = "nil" =>
         LET f == Written(last.id)[Len(Written(last.id))]
             pt == last.inp.pt
         IN IF WriteSealed(last.id)
            THEN /\ f.header.ct = RecordTypeApplicationData
                 /\ f.body.sealed
                 /\ f.body.data =
                      BCat(pt.fragment.data, <<pt.contentType>> \o ZeroBytes(last.arg))
            ELSE /\ f.header.ct = pt.contentType
                 /\ f.body = pt.fragment

\* an alert was written under an AEAD and went out as ApplicationData
C11_Witness ==
    /\ last.op = "WriteRecord" /\ last.err = "nil"
    /\ WriteSealed("L")
    /\ last.inp.pt.contentType = RecordTypeAlert
    /\ Written("L")[Len(Written("L"))].header.ct = RecordTypeApplicationData
    /\ Written("L")[Len(Written("L"))].body.data = Bytes(0, <<1, 0, RecordTypeAlert>>)

\* C12 (padding on cleartext): a write with padLen > 0 while the write cipher
\* state is cleartext does not succeed: it returns the padding error, hands
\* nothing to the transport and leaves every cipher state as it was.
C12_NoPaddingOnCleartext ==
    [][\A id \in DOMAIN layers :
          WriteStep(id) /\ last'.arg > 0 /\ ~WriteSealed(id) =>
            /\ last'.err # "nil"
            /\ last'.err \notin Panics => last'.err = "PaddingOnCleartext"
            /\ conn' = conn
            /\ heap' = heap]_vars

\* after a rekey and a reset to cleartext, a padded write was rejected
C12_Witness ==
    /\ last.op = "WriteRecord" /\ last.err = "PaddingOnCleartext" /\ last.arg > 0
    /\ ~WriteSealed("L")
    /\ hist.keys # {}
    /\ Written("L") = <<>>

\* the body length a write of pt with padLen asks for under cipher state c
WireLen(c, pt, padLen) ==
    BLen(pt.fragment.data) + IF c.cipher # "nil" THEN 1 + padLen + AEADOverhead ELSE 0

\* C19 (write size bound): every record handed to the transport has a body of
\* at most 2^14 bytes and a length field equal to its body length; a write
\* whose body would be longer does not succeed, hands nothing to the transport
\* and leaves every cipher state as it was; a write hands over at most one
\* record, whose body is as long as the whole fragment asks for.
C19_WriteSizeBound ==
    [][\A id \in DOMAIN layers :
          WriteStep(id) =>
            LET len == WireLen(heap[layers[id].cipher], last'.inp.pt, last'.arg)
            IN /\ \A i \in 1..Len(conn'[layers[id].conn]) :
                    /\ BodyLen(conn'[layers[id].conn][i].body) <= maxFragmentLen
                    /\ conn'[layers[id].conn][i].header.len =
                         BodyLen(conn'[layers[id].conn][i].body)
               /\ len > maxFragmentLen =>
                    /\ last'.err # "nil"
                    /\ last'.err \notin Panics =>
                         last'.err \in {"RecordTooBig", "PaddingOnCleartext"}
                    /\ conn' = conn
                    /\ heap' = heap
               /\ \/ conn' = conn
                  \/ /\ Len(conn'[layers[id].conn]) = Len(conn[layers[id].conn]) + 1
                     /\ BodyLen(conn'[layers[id].conn][Len(conn'[layers[id].conn])].body) = len
                     /\ SubSeq(conn'[layers[id].conn], 1, Len(conn[layers[id].conn])) =
                          conn[layers[id].conn]]_vars

\* a sealed record of exactly 2^14 bytes went out, and the same fragment with
\* one byte of padding was rejected
C19_Witness ==
    /\ last.op = "WriteRecord" /\ last.err = "RecordTooBig" /\ last.arg = 1
    /\ WriteSealed("L")
    /\ Len(Written("L")) = 1
    /\ BodyLen(Written("L")[1].body) = maxFragmentLen
    /\ heap[layers["L"].cipher].seq = U64(0, 0, 1)

\* the step is a ReadRecord of layer id that finds its cache empty and a
\* record of a known type on the transport, with version checking on
ChecksVersion(id) ==
    /\ CallStep(id, "ReadRecord")
    /\ ~allowWrongVersionNumber
    /\ layers[id].cachedRecord.nil
    /\ conn[layers[id].conn] # <<>>
    /\ Head(conn[layers[id].conn]).kind = "rec"
    /\ Head(conn[layers[id].conn]).header.ct \in KnownTypes

\* C13 (version validation): with version checking on, the read path rejects
\* a record with the version error exactly when the version field of its
\* header differs from the version the read layer is configured with; so a
\* record written by a stream write layer configured with v is accepted by a
\* stream read layer configured with the same v.
C13_VersionValidation ==
    [][\A id \in DOMAIN layers :
          ChecksVersion(id) =>
            /\ last'.err = "InvalidVersion" <=>
                 Head(conn[layers[id].conn]).header.ver # layers[id].version
            /\ Head(conn[layers[id].conn]).header.ver = layers[id].version =>
                 last'.err = "nil"]_vars

\* C14 (oblivious PRF): under one server key k the secret an exchange
\* returns is the hash of the server's public point and of k * H(x): it does
\* not depend on the blinding scalar r, two exchanges on inputs with the same
\* curve point return equal secrets and two on inputs with different curve
\* points return different ones. (An exchange whose blinded point is the
\* point at infinity returns nothing.)
C14_ObliviousPRF ==
    oprf.pc # "off" =>
      /\ \A i \in 1..Len(oprf.done) :
            oprf.done[i].secret =
              Hash(<<>>, oprf.server.v, ScalarMult(oprf.done[i].h, oprf.server.k))
      /\ \A i \in 1..Len(oprf.done), j \in 1..Len(oprf.done) :
            (oprf.done[i].h = oprf.done[j].h) <=> (oprf.done[i].secret = oprf.done[j].secret)

\* two exchanges on the same input with different r returned the same secret
C14_Witness ==
    /\ oprf.pc = "idle"
    /\ Len(oprf.done) = 2
    /\ oprf.done[1].x = oprf.done[2].x
    /\ oprf.done[1].r # oprf.done[2].r
    /\ oprf.done[1].secret = oprf.done[2].secret

\* the step lowers the epoch Epoch() returns on layer id
EpochDrops(id) == Epoch(id)' < Epoch(id)

\* the step is a call of op on layer id that returned no error
CallOk(id, op) == CallStep(id, op) /\ last'.err = "nil"

\* C15 as stated (epoch monotonicity): no operation on a record layer lowers
\* the value Epoch() returns.
C15_EpochMonotone == [][\A id \in DOMAIN layers : ~EpochDrops(id)]_vars

\* C15 (what Epoch() returns): after a Rekey that returned no error Epoch() is
\* the epoch argument of that call, whatever it was before, and after
\* ResetClear it is 0; every other operation (reads, peeks, writes,
\* DiscardReadKey, SetVersion, a Rekey whose factory failed, and every
\* operation on another layer) leaves it unchanged. So Epoch() goes down
\* only in a Rekey to a smaller epoch and in a ResetClear after a Rekey.
C15_EpochFollowsRekey ==
    [][\A id \in DOMAIN layers :
          /\ CallOk(id, "Rekey") => Epoch(id)' = last'.arg
          /\ CallStep(id, "ResetClear") => Epoch(id)' = EpochClear
          /\ ~CallOk(id, "Rekey") /\ ~CallStep(id, "ResetClear") => Epoch(id)' = Epoch(id)
          /\ EpochDrops(id) =>
               \/ CallOk(id, "Rekey") /\ last'.arg < Epoch(id)
               \/ CallStep(id, "ResetClear") /\ Epoch(id) > EpochClear]_vars

\* a datagram read layer was rekeyed to epoch 2, then to epoch 1, and Epoch()
\* returns 1
C15_Witness ==
    /\ last.id = "R" /\ last.op = "Rekey" /\ last.err = "nil" /\ last.arg = 1
    /\ layers["R"].datagram
    /\ 2 \in DOMAIN layers["R"].readCiphers
    /\ Epoch("R") = 1

\* layer id keeps an epoch map that Rekey extends
KeepsEpochs(id) == layers[id].datagram /\ layers[id].direction = DirectionRead

\* the entry of epoch e in the map of layer id is, after the step, the object
\* it was, with the key, IV and counter it had
EntryKept(id, e) ==
    /\ e \in DOMAIN layers'[id].readCiphers
    /\ layers'[id].readCiphers[e] = layers[id].readCiphers[e]
    /\ heap'[layers[id].readCiphers[e]] = heap[layers[id].readCiphers[e]]

\* the entry of epoch e in the map of layer id is, after the step, the object
\* it was, with the epoch, key and IV it had
EntrySameKey(id, e) ==
    /\ e \in DOMAIN layers'[id].readCiphers
    /\ layers'[id].readCiphers[e] = layers[id].readCiphers[e]
    /\ heap'[layers[id].readCiphers[e]].epoch = heap[layers[id].readCiphers[e]].epoch
    /\ heap'[layers[id].readCiphers[e]].cipher = heap[layers[id].readCiphers[e]].cipher
    /\ heap'[layers[id].readCiphers[e]].iv = heap[layers[id].readCiphers[e]].iv

\* the entry of the layer's current epoch is its current cipher state
CurrentInMap(id) ==
    /\ Epoch(id) \in DOMAIN layers[id].readCiphers
    /\ layers[id].readCiphers[Epoch(id)] = layers[id].cipher

\* C16 (epoch map retention): on a datagram read layer a Rekey that returned
\* no error adds its epoch to the map with the new state, which is the
\* current one, and leaves every other entry the object it was, with its key
\* and its counter; no entry leaves the map or changes its epoch, key or IV
\* except in DiscardReadKey and in a Rekey to its epoch, and
\* entries of different epochs are different objects; as long as only Rekey,
\* reads and writes are called on it, the entry of the current epoch is the
\* current cipher state. A Rekey on a stream layer or on a write layer leaves the map
\* as it was, and a Rekey whose factory failed changes neither the layers nor
\* any cipher state.
C16_MapRetention ==
    [][\A id \in DOMAIN layers :
          /\ CallOk(id, "Rekey") /\ KeepsEpochs(id) =>
               /\ DOMAIN layers'[id].readCiphers =
                    DOMAIN layers[id].readCiphers \cup {last'.arg}
               /\ layers'[id].readCiphers[last'.arg] = layers'[id].cipher
               /\ heap'[layers'[id].cipher].epoch = last'.arg
               /\ heap'[layers'[id].cipher].seq = Zero64
               /\ layers'[id].cipher \notin DOMAIN heap
               /\ \A e \in DOMAIN layers[id].readCiphers \ {last'.arg} : EntryKept(id, e)
               /\ CurrentInMap(id)'
          /\ CallStep(id, "Rekey") /\ ~KeepsEpochs(id) =>
               layers'[id].readCiphers = layers[id].readCiphers
          /\ CallStep(id, "Rekey") /\ last'.err # "nil" =>
               layers' = layers /\ heap' = heap
          /\ ~CallStep(id, "DiscardReadKey") =>
               \A e \in DOMAIN layers[id].readCiphers :
                  (CallOk(id, "Rekey") /\ last'.arg = e) \/ EntrySameKey(id, e)
          /\ KeepsEpochs(id) /\ CurrentInMap(id)
               /\ ~CallStep(id, "DiscardReadKey") /\ ~CallStep(id, "ResetClear") =>
               CurrentInMap(id)'
          /\ \A e1, e2 \in DOMAIN layers'[id].readCiphers :
               e1 # e2 => layers'[id].readCiphers[e1] # layers'[id].readCiphers[e2]]_vars

\* a datagram read layer was rekeyed to epochs 1 and 2 and holds epochs 0, 1
\* and 2, each with the epoch it was installed for, the last one current
C16_Witness ==
    /\ KeepsEpochs("R")
    /\ last.id = "R" /\ last.op = "Rekey" /\ last.err = "nil"
    /\ DOMAIN layers["R"].readCiphers = {0, 1, 2}
    /\ \A e \in {0, 1, 2} : heap[layers["R"].readCiphers[e]].epoch = e
    /\ heap[layers["R"].readCiphers[0]].cipher = "nil"
    /\ CurrentInMap("R")

\* the datagram layer id, with nothing cached, finds at the head of its
\* transport a frame whose wire sequence carries an epoch that is not in the
\* epoch map
UnknownEpochAtHead(id) ==
    /\ layers[id].datagram /\ layers[id].cachedRecord.nil
    /\ conn[layers[id].conn] # <<>>
    /\ Head(conn[layers[id].conn]).kind = "rec"
    /\ Head(conn[layers[id].conn]).header.seq.e \notin DOMAIN layers[id].readCiphers

\* the header passes nextRecord's checks of content type, version and size
HeaderAccepted(header) ==
    /\ header.ct \in KnownTypes
    /\ allowWrongVersionNumber \/ header.ver = tls10Version
    /\ header.len <= maxFragmentLen + 256

\* the read returned would-block and no record, and decrypted nothing: no
\* cipher state changed and nothing was cached
Dropped(id) ==
    /\ last'.err = "WouldBlock" /\ last'.pt.nil
    /\ heap' = heap
    /\ layers'[id].cachedRecord.nil
    /\ Consumes(id)

\* DiscardReadKey(E) on a datagram layer that holds E removes the entry of E
\* and leaves every other entry, and the current cipher state, as they were
DiscardRemovesOne(id) ==
    CallOk(id, "DiscardReadKey") /\ layers[id].datagram =>
        /\ DOMAIN layers'[id].readCiphers = DOMAIN layers[id].readCiphers \ {last'.arg}
        /\ \A e \in DOMAIN layers[id].readCiphers \ {last'.arg} : EntryKept(id, e)
        /\ layers'[id].cipher = layers[id].cipher

\* C17 as stated (eviction): every delivered record whose wire sequence
\* carries an epoch that is not in the map (discarded and not rekeyed since,
\* or never installed) yields would-block from ReadRecord and from
\* ReadRecordAnyEpoch and is neither decrypted nor returned, and a discard
\* leaves the other entries unchanged.
C17_EvictedWouldBlock ==
    [][\A id \in DOMAIN layers :
          /\ ReadStep(id) /\ UnknownEpochAtHead(id) => Dropped(id)
          /\ DiscardRemovesOne(id)]_vars

\* C17 (eviction): a delivered record whose wire sequence carries an epoch
\* that is not in the map is never decrypted or returned by ReadRecord or
\* ReadRecordAnyEpoch: the call changes no cipher state, caches nothing and
\* returns no record; it returns would-block when the header passes the checks
\* of content type, version and size, which come first, and the error of the
\* failing check otherwise. A discard leaves the other entries unchanged.
C17_EvictedNeverRead ==
    [][\A id \in DOMAIN layers :
          /\ ReadStep(id) /\ UnknownEpochAtHead(id) =>
               /\ last'.pt.nil /\ heap' = heap /\ layers'[id].cachedRecord.nil
               /\ last'.err \in {"WouldBlock", "UnknownContentType", "InvalidVersion",
                                 "CiphertextTooBig"}
               /\ HeaderAccepted(Head(conn[layers[id].conn]).header) <=> Dropped(id)
          /\ DiscardRemovesOne(id)]_vars

\* a datagram read layer was rekeyed to epoch 1, epoch 1 was discarded, and
\* ReadRecordAnyEpoch took a record of epoch 1 off the transport and returned
\* would-block
C17_Witness ==
    /\ last.id = "L" /\ last.op = "ReadRecordAnyEpoch" /\ last.err = "WouldBlock"
    /\ ~last.inp.nil /\ last.inp.pt.epoch = 1
    /\ layers["L"].datagram
    /\ Epoch("L") = 1
    /\ 1 \notin DOMAIN layers["L"].readCiphers

\* nextRecord(false) on layer id returns would-block: nothing is cached and
\* the transport has nothing, or, on a datagram layer, has a frame with an
\* accepted header whose epoch is not in the map or is not the current one
WouldBlockCase(id) ==
    /\ layers[id].cachedRecord.nil
    /\ \/ conn[layers[id].conn] = <<>>
       \/ /\ layers[id].datagram
          /\ Head(conn[layers[id].conn]).kind = "rec"
          /\ HeaderAccepted(Head(conn[layers[id].conn]).header)
          /\ \/ UnknownEpochAtHead(id)
             \/ Head(conn[layers[id].conn]).header.seq.e # Epoch(id)

\* the transport of layer id has delivered a complete handshake record <<1>>
\* of the layer's current epoch: in cleartext if the current state has no
\* AEAD, else sealed by a peer with the key and IV of the current state and,
\* on a stream, its counter
ValidRecordAtHead(id) ==
    LET L == layers[id]
        cur == heap[L.cipher]
        peer == CipherState(cur.epoch, IF L.datagram THEN Zero64 ELSE cur.seq,
                            cur.iv, cur.cipher)
    IN /\ L.cachedRecord.nil
       /\ conn[L.conn] # <<>>
       /\ Head(conn[L.conn]) =
            IF cur.cipher = "nil"
            THEN PeerClear(cur.epoch, L.datagram, RecordTypeHandshake, tls10Version,
                           Bytes(0, <<1>>))
            ELSE PeerSealed(peer, L.datagram, tls10Version, GoodPayload)

\* the blocking peek on layer id is in its loop
InPeekLoop(id) == layers[id].pc = "peek"

\* the blocking peek on layer id is over: it returned the type of the
\* handshake record, which is cached; or the counter of the current state was
\* at its limit and incrementSequenceNumber panicked
PeekOver(id) ==
    \/ /\ layers[id].pc = "idle"
       /\ last.id = id /\ last.op = "PeekRecordType" /\ last.arg = 1
       /\ last.err = "nil" /\ last.ct = RecordTypeHandshake
       /\ ~layers[id].cachedRecord.nil
    \/ /\ layers[id].pc = "panicked"
       /\ last.err = "panic:wraparound"
       /\ heap[layers[id].cipher].seq = SeqLimit

\* C18, its safety half: a blocking peek never returns would-block: where
\* nextRecord reports would-block it stays in its loop, and it leaves the loop
\* only with the content type of the record that is now cached or with an
\* error that is not would-block; a non-blocking peek never loops and returns
\* would-block at once in those cases.
PeekReturns ==
    [][\A id \in DOMAIN layers :
          PeekStep(id) /\ last'.err \notin Panics =>
            /\ last'.arg = 1 =>
                 /\ last'.err # "WouldBlock"
                 /\ WouldBlockCase(id) <=> last'.err = "retrying"
                 /\ InPeekLoop(id)' <=> last'.err = "retrying"
                 /\ last'.err = "retrying" => layers'[id].cachedRecord.nil /\ heap' = heap
            /\ last'.arg = 0 =>
                 /\ last'.err # "retrying" /\ ~InPeekLoop(id)'
                 /\ WouldBlockCase(id) <=> last'.err = "WouldBlock"
            /\ last'.err = "nil" =>
                 /\ ~layers'[id].cachedRecord.nil
                 /\ last'.ct = layers'[id].cachedRecord.pt.contentType]_vars

\* C18 (blocking peek): the safety half above, and: once the transport has
\* delivered a complete valid record of the current epoch to a blocking peek
\* that is in its loop, the peek eventually returns that record's content type
\* (or, the counter being exhausted, ends in the panic of
\* incrementSequenceNumber).
C18_BlockingPeek ==
    /\ PeekReturns
    /\ \A id \in {"L"} : (InPeekLoop(id) /\ ValidRecordAtHead(id)) ~> PeekOver(id)

\* a blocking peek met would-block, is in its loop, and the transport has now
\* delivered a valid record of the current epoch, which is sealed
C18_Witness ==
    /\ InPeekLoop("L")
    /\ last.op = "PeekRecordType" /\ last.err = "retrying" /\ last.arg = 1
    /\ ValidRecordAtHead("L")
    /\ heap[layers["L"].cipher].cipher # "nil"

\* the records handed to conn.Write that were built from cipher state c, in
\* the order in which they were handed over
SentUnder(c) == SelectSeq(callers.sent, LAMBDA e : e.cipher = c)

\* the records built from one cipher state went to the transport with the
\* counter values 0, 1, 2, ... in that order
Consecutive ==
    \A c \in DOMAIN heap :
       /\ Len(SentUnder(c)) > 0 => SentUnder(c)[1].seq = Zero64
       /\ \A i \in 1..(Len(SentUnder(c)) - 1) :
             SentUnder(c)[i + 1].seq = Inc64(SentUnder(c)[i].seq)

\* the record written in a section that began with a Rekey was built from the
\* state that Rekey installed, as its first record
RekeyedWriteFirst ==
    \A i \in 1..Len(callers.sent) :
       callers.sent[i].installed >= 0 =>
          /\ callers.sent[i].cipher = callers.sent[i].installed
          /\ callers.sent[i].seq = Zero64

\* goroutine g is inside a lock section, between its Lock and its Unlock
InSection(g) == callers.pc[g] # "out"

\* while a goroutine is inside its section no other goroutine takes a step,
\* and the layer, the cipher states and the transport change only by its steps
NotSeparated ==
    \A g \in Goroutines :
       InSection(g) =>
          \A u \in Goroutines \ {g} :
             /\ callers'.pc[u] = callers.pc[u]
             /\ callers'.loc[u] = callers.loc[u]
             /\ ~InSection(u)

\* C20 (locking discipline): with every operation between Lock and Unlock,
\* for every interleaving of goroutines that write and rekey, the records
\* handed to the transport under one cipher state carry the consecutive
\* counter values 0, 1, 2, ... in the order in which they are handed over, and
\* a Rekey followed by a write in one lock section is not separated by a step
\* of another goroutine: the record is the first one under the new state.
C20_LockingDiscipline ==
    /\ [](callers.mu # "off" => Consecutive /\ RekeyedWriteFirst)
    /\ [][callers.mu # "off" => NotSeparated]_vars

\* both goroutines have written under one cipher state, one right after the
\* other, and one of them has rekeyed and written in one section
C20_Witness ==
    /\ callers.mu # "off"
    /\ \E i, j \in 1..Len(callers.sent) :
          /\ callers.sent[i].cipher = callers.sent[j].cipher
          /\ callers.sent[i].g # callers.sent[j].g
          /\ callers.sent[j].seq = Inc64(callers.sent[i].seq)
    /\ \E k \in 1..Len(callers.sent) : callers.sent[k].installed >= 0

\* the last call returned a record, or reported the type of one
Delivered ==
    /\ last.err = "nil"
    /\ last.op \in {"ReadRecord", "ReadRecordAnyEpoch", "PeekRecordType"}

\* the content type the last call delivered
DeliveredType ==
    IF last.op = "PeekRecordType" THEN last.ct ELSE last.pt.pt.contentType

\* C21 (content type of delivered records): every record that ReadRecord or
\* ReadRecordAnyEpoch returns or whose type PeekRecordType reports has a
\* content type among Alert, Handshake, ApplicationData and Ack, cleartext or
\* sealed, whatever the peer put in the payload.
C21_DeliveredTypeKnown == Delivered => DeliveredType \in KnownTypes

\* the epoch in the wire sequence of the frame at the head of the transport
HeadEpoch(id) == Head(conn[layers[id].conn]).header.seq.e

\* the cipher state nextRecord selects for the frame at the head: r.cipher for
\* the current epoch, the map's entry for another one
Selected(id) ==
    IF HeadEpoch(id) = Epoch(id) THEN layers[id].cipher
    ELSE layers[id].readCiphers[HeadEpoch(id)]

\* the datagram layer id, with nothing cached, finds at the head of its
\* transport a valid record of an epoch it holds: the handshake record <<1>>,
\* in cleartext if the state of that epoch has no AEAD, else sealed by a peer
\* with that state's key and IV at wire counter 0; and the selected state's
\* counter is not exhausted
ValidEpochRecordAtHead(id) ==
    LET L == layers[id]
    IN /\ L.datagram /\ L.pc = "idle" /\ L.cachedRecord.nil
       /\ conn[L.conn] # <<>>
       /\ Head(conn[L.conn]).kind = "rec"
       /\ HeadEpoch(id) \in DOMAIN L.readCiphers
       /\ ~incrementSequenceNumber(heap[Selected(id)]).panic
       /\ Head(conn[L.conn]) =
            IF heap[Selected(id)].cipher = "nil"
            THEN PeerClear(HeadEpoch(id), TRUE, RecordTypeHandshake, tls10Version,
                           Bytes(0, <<1>>))
            ELSE PeerSealed(CipherState(HeadEpoch(id), Zero64, heap[Selected(id)].iv,
                                        heap[Selected(id)].cipher),
                            TRUE, tls10Version, GoodPayload)

\* the read accepts the frame at the head of the transport whatever the
\* selected state's counter is: it returns the handshake record <<1>> with the
\* wire sequence value of the frame (no sequence value if it is cleartext), and
\* the selected state's counter, and nothing else on the heap, goes up by one
AcceptsHead(id) ==
    /\ last'.err = "nil" /\ ~last'.pt.nil
    /\ last'.pt.pt.contentType = RecordTypeHandshake
    /\ last'.pt.pt.fragment = Raw(Bytes(0, <<1>>))
    /\ last'.pt.pt.seq = IF heap[Selected(id)].cipher = "nil" THEN Zero64
                         ELSE Head(conn[layers[id].conn]).header.seq
    /\ heap' = [heap EXCEPT ![Selected(id)].seq = Inc64(@)]
    /\ Consumes(id)

\* C22 (no duplicate detection in datagram mode): a valid record of an epoch
\* the layer accepts is returned every time the transport delivers it, by
\* ReadRecordAnyEpoch for every epoch in the map and by ReadRecord for the
\* current one, with the same fragment, type and sequence value, whatever the
\* counter of the selected cipher state, and each read advances that counter
\* by one.
C22_DuplicatesAccepted ==
    [][\A id \in DOMAIN layers :
          /\ ValidEpochRecordAtHead(id)
          /\ \/ CallStep(id, "ReadRecordAnyEpoch")
             \/ CallStep(id, "ReadRecord") /\ HeadEpoch(id) = Epoch(id)
          => AcceptsHead(id)]_vars

====
